---------------------------- MODULE Spec2Model ----------------------------
(***************************************************************************)
(* A model of the blksnap snapshot engine.                                 *)
(*                                                                         *)
(* Part I  (SpecSnapshot): the snapshot lifecycle of module/snapshot.c     *)
(*   (snapshot_create, snapshot_take, snapshot_destroy, snapshot_free,     *)
(*   snapshot_release), the tracker submit-lock of module/tracker.h and    *)
(*   the per-bio interception pipeline of a tracker.                       *)
(* Part II (SpecCow): the copy-on-write data path of one diff area: the    *)
(*   chunk state machine of module/chunk.c, the block range of a write     *)
(*   (tracker_cow), the original device and the snapshot image.            *)
(* Part III (SpecCbt): the change-block-tracking map of module/cbt_map.c   *)
(*   (set, set_both, switch, read_to_user, reset) under its spin lock.     *)
(* Part IV (SpecTracking): the tracker registry of module/tracker.c        *)
(*   (tracking_add, tracking_remove, tracker_get_by_dev_id).               *)
(* Part V  (SpecEvent): the event queue of module/event_queue.c.           *)
(* Part VI (SpecControl): the calls of Part I from two threads.            *)
(* Part VII (SpecRegistry): snapshot_collect and                           *)
(*   snapshot_mark_dirty_blocks between the calls of Part I.               *)
(* Part VIII (SpecCowRace): the copy-on-write of Part II under two write   *)
(*   bios.                                                                 *)
(* Part IX (SpecCowFree): the data path of Part II up to chunk_free.       *)
(* Part X  (SpecImage): the image list and the minors of                   *)
(*   module/snapimage.c.                                                   *)
(* Part XI (SpecCalc): cbt_map_calculate_block_size of module/cbt_map.c.   *)
(***************************************************************************)
EXTENDS Integers, Sequences, FiniteSets, TLC

(***************************************************************************)
(* Bounds of the model.                                                    *)
(***************************************************************************)
NDev == 2        \* original block devices
NSnap == 2       \* snapshot objects that can be created
NCaller == 2     \* concurrent control-path (ioctl) threads
NBio == 1        \* concurrent bios in the interception pipeline
MaxDa == 2       \* diff areas allocated in the explorations with one caller
MaxDaControl == 4 \* diff areas allocated in the exploration with two callers
SnapimageMaxDevices == 2 \* minors of the image bitmap (SNAPIMAGE_MAX_DEVICES)
MaxImages == 3   \* images linked in snap_images
WordBits == 5    \* width of unsigned long long and sector_t in the block-size calculation
SectorShift == 1 \* SECTOR_SHIFT in the block-size calculation
MaxMinShift == 3 \* largest tracking_block_minimum_shift
MaxMaxCount == 4 \* largest tracking_block_maximum_count
MaxImg == 2      \* snap images that can be created (then snapimage_create fails)

Devs == 1..NDev
Snaps == 1..NSnap
Callers == 1..NCaller
SoloCaller == {1}    \* the thread of the explorations with one caller
Bios == 1..NBio

HEAD == 0        \* the list head `snapshots`
POISON == -1     \* LIST_POISON1/2 left in a deleted entry
Nodes == {HEAD} \cup Snaps

VARIABLES
    link_next, link_prev,  \* list_head next/prev of `snapshots` and of each snapshot->link
    snapshot,              \* struct snapshot per object
    tracker,               \* struct tracker per device
    diff_area,             \* the diff areas allocated so far (a sequence)
    snapimage,             \* the snap images created so far (a sequence)
    ctl,                   \* position of each control-path thread
    bio,                   \* position of each bio in the filter
    oops,                  \* the kernel hit a poisoned or freed pointer
    ev,                    \* what the last step did (observation only)
    orig,                  \* content of each chunk of the original device
    chunk,                 \* struct chunk per chunk of the diff area
    area,                  \* the diff area: corrupted, in_memory, the cache list
    store,                 \* the diff storage: content of each reserved extent
    io,                    \* asynchronous chunk I/O in flight
    wr,                    \* position of each write bio on the original device
    cev,                   \* what the last step of the data path did (observation only)
    cbt_map,               \* struct cbt_map of one tracker
    cbt_op,                \* position of each thread inside a cbt_map_* call
    cbt_ev,                \* what the last cbt_map_* step did (observation only)
    trackers,              \* list_head next/prev of `trackers` and of each tracker's entry
    trk,                   \* struct tracker of tracker.c, per device
    trk_oops,              \* a tracking call touched a freed tracker
    trk_ev,                \* what the last tracking call did (observation only)
    event_queue,           \* struct event_queue of one snapshot
    waiter,                \* position of each thread inside event_wait()
    evq_ev,                \* what the last event-queue step did (observation only)
    snapimage_minors,      \* the bitmap of image minors: the minors marked used
    snap_images,           \* the list snap_images of snapimage.c
    img_ev,                \* what the last snapimage_* call did (observation only)
    calc                   \* a call of cbt_map_calculate_block_size: inputs and result

snapVars == <<link_next, link_prev, snapshot, tracker, diff_area, snapimage,
              ctl, bio, oops, ev>>

cowVars == <<orig, chunk, area, store, io, wr, cev>>

cbtVars == <<cbt_map, cbt_op, cbt_ev>>

trkVars == <<trackers, trk, trk_oops, trk_ev>>

evqVars == <<event_queue, waiter, evq_ev>>

imgVars == <<snapimage_minors, snap_images, img_ev>>

vars == <<snapVars, cowVars, cbtVars, trkVars, evqVars, imgVars, calc>>

\* What the actions of one part leave alone.
notSnap == <<cowVars, cbtVars, trkVars, evqVars, imgVars, calc>>
notCow == <<snapVars, cbtVars, trkVars, evqVars, imgVars, calc>>
notCbt == <<snapVars, cowVars, trkVars, evqVars, imgVars, calc>>
notTrk == <<snapVars, cowVars, cbtVars, evqVars, imgVars, calc>>
notEvq == <<snapVars, cowVars, cbtVars, trkVars, imgVars, calc>>
notImg == <<snapVars, cowVars, cbtVars, trkVars, evqVars, calc>>
notCalc == <<snapVars, cowVars, cbtVars, trkVars, evqVars, imgVars>>

(***************************************************************************)
(* Helpers                                                                 *)
(***************************************************************************)
Range(f) == {f[x] : x \in DOMAIN f}

NoDup(q) == \A i, j \in DOMAIN q : i # j => q[i] # q[j]

\* The device-id arrays handed to snapshot_create: no device twice.
DevLists == UNION {{q \in [1..n -> Devs] : NoDup(q)} : n \in 0..NDev}

NoEv == [op |-> "none"]

(***************************************************************************)
(* <linux/list.h> as used by snapshot.c                                    *)
(***************************************************************************)
\* __list_add(new, prev, next) with prev = head->prev, next = head.
ListAddTail(new, head, nx, pv) ==
    LET prev == pv[head]
        pv1 == [pv EXCEPT ![head] = new]
        nx1 == [nx EXCEPT ![new] = head]
        pv2 == [pv1 EXCEPT ![new] = prev]
        nx2 == [nx1 EXCEPT ![prev] = new]
    IN  [next |-> nx2, prev |-> pv2]

\* __list_del(entry->prev, entry->next); entry->next/prev = LIST_POISON.
\* Deleting an entry that was already deleted dereferences the poison.
ListDelOk(e, nx, pv) == nx[e] # POISON /\ pv[e] # POISON

ListDel(e, nx, pv) ==
    LET n == nx[e]
        p == pv[e]
        pv1 == [pv EXCEPT ![n] = p]
        nx1 == [nx EXCEPT ![p] = n]
    IN  [next |-> [nx1 EXCEPT ![e] = POISON], prev |-> [pv1 EXCEPT ![e] = POISON]]

\* list_for_each_entry(s, &snapshots, link): the entries met from the head.
RECURSIVE Walk(_, _, _)
Walk(nx, n, fuel) ==
    IF n = HEAD \/ n = POISON \/ fuel = 0 THEN <<>>
    ELSE <<n>> \o Walk(nx, nx[n], fuel - 1)

ListEntries(nx) == Walk(nx, nx[HEAD], NSnap + 1)

InRegistry(s) == \E i \in DOMAIN ListEntries(link_next) : ListEntries(link_next)[i] = s

(***************************************************************************)
(* Initial state: module loaded, no tracker, no snapshot.                  *)
(***************************************************************************)
NoSnapshot == [st |-> "none", kref |-> 0, is_taken |-> FALSE, count |-> 0,
               tracker_array |-> <<>>, snapimage_array |-> <<>>, devs |-> <<>>]

\* kfree(snapshot): nothing of the object is left.
FreedSnapshot == [NoSnapshot EXCEPT !.st = "freed"]

\* taken_by is an observation: the snapshot whose take set snapshot_is_taken.
NoTracker == [exists |-> FALSE, ref |-> 0, snapshot_is_taken |-> FALSE,
              diff_area |-> 0, lock_w |-> 0, lock_r |-> 0,
              cbt_active |-> 1, cbt_dirty |-> FALSE, taken_by |-> 0]

\* das, imgs, devs and step are observations: what this call allocated, the
\* trackers of its snapshot, and the step of snapshot_take at which it failed.
IdleCtl == [pc |-> "idle", op |-> "none", snap |-> 0, ret |-> "OK", inx |-> 0,
            puts |-> 0, das |-> {}, imgs |-> {}, devs |-> {}, step |-> "none"]

\* by is an observation: the snapshot that had the tracker taken when the bio
\* looked at snapshot_is_taken.
IdleBio == [pc |-> "idle", dev |-> 0, write |-> FALSE, by |-> 0]

SnapInit ==
    /\ link_next = [n \in Nodes |-> IF n = HEAD THEN HEAD ELSE n]
    /\ link_prev = [n \in Nodes |-> IF n = HEAD THEN HEAD ELSE n]
    /\ snapshot = [s \in Snaps |-> NoSnapshot]
    /\ tracker = [d \in Devs |-> NoTracker]
    /\ diff_area = <<>>
    /\ snapimage = <<>>
    /\ ctl = [c \in Callers |-> IdleCtl]
    /\ bio = [b \in Bios |-> IdleBio]
    /\ oops = FALSE
    /\ ev = NoEv

(***************************************************************************)
(* The data path of one diff area: geometry and initial state              *)
(***************************************************************************)
NChunks == 2              \* chunks of the diff area
ChunkShift == 1           \* log2 of the sectors of a chunk
MaxCnt == 2               \* longest write, in sectors
NWriter == 2              \* concurrent write bios on the original device
StoreCap == 2        \* sub-extents the user can have appended to the diff storage
MaxImgWrite == 2
ChunkMaximumInCache == 1  \* module parameter chunk_maximum_in_cache

ChunkSectors == 2 ^ ChunkShift
NSectors == NChunks * ChunkSectors
Chunks == 0..(NChunks - 1)
Sectors == 0..(NSectors - 1)
Writers == 1..NWriter
SoloWriter == {1}    \* the bio of the explorations with one write in flight

\* The content of a chunk-sized piece of data, as far as the snapshot is
\* concerned: what chunk c held when the snapshot was taken; or that with
\* sectors the image wrote; or something holding sectors written to the
\* original after the take; or memory nothing was read into yet.
TakeContent(c) == <<"take", c>>
ImgContent(c, n) == <<"img", c, n>>
NewContent == <<"new">>
Junk == <<"junk">>

\* The chunk of sector n.
ChunkOf(n) == n \div ChunkSectors

\* What chunk c of the original device holds now.
OrigContent(c) == orig[c]

\* A write of the image into a buffer.
ImageWritten(x, c, n) ==
    IF x = TakeContent(c) \/ x \in {ImgContent(c, k) : k \in 1..MaxImgWrite}
    THEN ImgContent(c, n) ELSE x

NoBuffer == <<>>
FreshBuffer == Junk

\* chunk_alloc(): state 0, no buffer, no store, lock free.  stores, img and
\* nospace are observations: how many extents were reserved for the chunk,
\* how often the image wrote to it, and whether the diff storage refused it
\* an extent; freed: chunk_free() has kfree()d the chunk.
NewChunk == [state |-> {}, diff_buffer |-> NoBuffer, diff_store |-> 0,
             store_freed |-> FALSE, error |-> FALSE, lock |-> FALSE,
             stores |-> 0, img |-> 0, nospace |-> FALSE, freed |-> FALSE]

IdleWr == [pc |-> "idle", start |-> 0, cnt |-> 0, blk |-> 0]

NoCev == [op |-> "none"]

\* A snapshot was just taken: nothing is copied yet.
CowInit ==
    /\ orig = [c \in Chunks |-> TakeContent(c)]
    /\ chunk = [c \in Chunks |-> NewChunk]
    /\ area \in {[corrupted |-> FALSE, error |-> "none", in_memory |-> m,
                caching_chunks |-> <<>>, caching_chunks_count |-> 0,
                capacity |-> n, overflow |-> FALSE, out_of_space |-> 0] :
                    m \in BOOLEAN, n \in 0..StoreCap}
    /\ area.in_memory => area.capacity = 0
    /\ store = <<>>
    /\ io = {}
    /\ wr = [w \in Writers |-> IdleWr]
    /\ cev = NoCev

(***************************************************************************)
(* CBT map data (module/cbt_map.c)                                         *)
(***************************************************************************)
BlkCount == 2          \* cbt_map->blk_count
CbtBlkShift == 1       \* cbt_map->blk_size_shift - SECTOR_SHIFT
SectorBits == 3        \* width of sector_t and size_t in the model
NCbtThread == 2        \* threads calling into one cbt_map
MaxSwitch == 2         \* switches explored
MaxReset == 1          \* resets explored
MaxCbtCnt == 2         \* largest sector count of a set call
AgedSnapNumber == 254  \* active snap-number of a map that saw that many takes
SnapNumberLimit == 256 \* if (cbt_map->snap_number_active == 256)

CbtThreads == 1..NCbtThread
CbtBlocks == 0..(BlkCount - 1)
WordMod == 2 ^ SectorBits
\* Sector numbers and byte offsets a caller can pass: the device and one
\* block past its end.
CbtStarts == 0..((BlkCount + 1) * (2 ^ CbtBlkShift) - 1)
CbtCnts == 0..MaxCbtCnt
CbtOffsets == 0..(BlkCount + 1)
CbtSizes == 0..BlkCount

OutOfMap == -1         \* a byte that lies outside the map's buffer

\* sector >> (blk_size_shift - SECTOR_SHIFT)
CbtBlockOf(sector) == sector \div (2 ^ CbtBlkShift)

\* cbt_map_allocate(): both maps zero, previous 0, active 1, a new
\* generation id, not corrupted.  Generation ids are numbered in the order
\* they are drawn.
CbtMapAllocate(gen, act) ==
    [read_map |-> [i \in CbtBlocks |-> 0],
     write_map |-> [i \in CbtBlocks |-> 0],
     snap_number_previous |-> act - 1,
     snap_number_active |-> act,
     generation_id |-> gen,
     is_corrupted |-> FALSE,
     locker |-> 0,
     switches |-> 0,
     resets |-> 0]

IdleCbtOp == [pc |-> "idle", both |-> FALSE, first |-> 0, last |-> 0,
              cur |-> 0, wm0 |-> <<>>]

NoCbtEv == [op |-> "none"]

\* cbt_map_create(): a new map, or one whose snap-number was advanced by
\* earlier takes during which nothing was written.
CbtInit ==
    /\ cbt_map \in {CbtMapAllocate(1, a) : a \in {1, AgedSnapNumber}}
    /\ cbt_op = [t \in CbtThreads |-> IdleCbtOp]
    /\ cbt_ev = NoCbtEv

CbtAtRest ==
    /\ cbt_map = CbtMapAllocate(1, 1)
    /\ cbt_op = [t \in CbtThreads |-> IdleCbtOp]
    /\ cbt_ev = NoCbtEv

(***************************************************************************)
(* The tracker registry (module/tracker.c) and the event queue of a        *)
(* snapshot (module/event_queue.c): data and initial state                 *)
(***************************************************************************)
MaxTrkRef == 3         \* references explored on one tracker
MaxSnapId == 1         \* snapshot ids passed to tracking_add (0: no snapshot)
MaxEvent == 4          \* events generated
NWaiter == 2           \* threads calling event_wait on one queue

Waiters == 1..NWaiter

\* kzalloc(sizeof(struct tracker)) before tracker_new() filled it in.  One
\* tracker object is followed per device.
NoTrk == [st |-> "none", refcount |-> 0, snapshot_id |-> 0,
          is_captured |-> FALSE, attached |-> FALSE]

\* LIST_HEAD(trackers): an empty list.
TrkInit ==
    /\ trackers = [next |-> [n \in {HEAD} \cup Devs |-> n],
                   prev |-> [n \in {HEAD} \cup Devs |-> n]]
    /\ trk = [d \in Devs |-> NoTrk]
    /\ trk_oops = FALSE
    /\ trk_ev = [op |-> "none"]

\* event_queue_init(): an empty list.  generated and delivered are
\* observations: how many events were queued (they are numbered in that
\* order) and the events event_wait() returned, in the order of their
\* list_del.  poisoned: the list head itself was list_del()ed.
EvqInit ==
    /\ event_queue = [list |-> <<>>, poisoned |-> FALSE, generated |-> 0,
                      delivered |-> <<>>]
    /\ waiter = [w \in Waiters |-> "idle"]
    /\ evq_ev = [op |-> "none"]

\* The lifecycle is explored with the data path at rest.
\* snapimage_init(): an empty bitmap of minors and an empty list of images.
ImgInit ==
    /\ snapimage_minors = {}
    /\ snap_images = <<>>
    /\ img_ev = [op |-> "none"]

InitSnapshot ==
    /\ SnapInit /\ CowInit /\ ~area.in_memory /\ area.capacity = StoreCap
    /\ CbtAtRest /\ TrkInit /\ EvqInit /\ ImgInit /\ calc = [pc |-> "idle"]

\* The data path is explored with the lifecycle at rest.
InitCow ==
    /\ SnapInit /\ CowInit /\ CbtAtRest /\ TrkInit /\ EvqInit /\ ImgInit
    /\ calc = [pc |-> "idle"]

\* The CBT map is explored with lifecycle and data path at rest.
InitCbt ==
    /\ SnapInit /\ CowInit /\ ~area.in_memory /\ area.capacity = StoreCap
    /\ CbtInit /\ TrkInit /\ EvqInit /\ ImgInit /\ calc = [pc |-> "idle"]

(***************************************************************************)
(* Trackers (module/tracker.h)                                             *)
(***************************************************************************)
\* A write lock that does not wait for the readers to leave.
TrackerLockIgnoresReaders(d) == tracker[d].lock_w = 0

\* percpu_down_write(&tracker->submit_lock) returns once there is no other
\* writer and every reader has left.
TrackerLockReady(d) == tracker[d].lock_w = 0 /\ tracker[d].lock_r = 0

\* A tracker_lock() that takes nothing.
TrackerLockSkipped(t, d) == t

\* tracker_lock(): a NULL tracker is skipped.
TrackerLock(t, d) == IF d = 0 THEN t ELSE [t EXCEPT ![d].lock_w = 1]

\* tracker_unlock()
TrackerUnlock(t, d) == IF d = 0 THEN t ELSE [t EXCEPT ![d].lock_w = 0]

\* tracker_put(): bdev_filter_put() on a non-NULL tracker.
TrackerPut(t, d) == IF d = 0 THEN t ELSE [t EXCEPT ![d].ref = @ - 1]

\* tracker_create_or_get(): an attached tracker gains a reference; else a
\* tracker is created and attached (one reference is the attachment's).
TrackerCreateOrGet(t, d) ==
    IF t[d].exists THEN [t EXCEPT ![d].ref = @ + 1]
    ELSE [t EXCEPT ![d].exists = TRUE, ![d].ref = 2]

\* tracker_take_snapshot(): switch the CBT map, set snapshot_is_taken.
TrackerTakeSnapshot(t, d, s) ==
    [t EXCEPT ![d].cbt_active = @ + 1, ![d].cbt_dirty = FALSE,
              ![d].snapshot_is_taken = TRUE, ![d].taken_by = s]

\* A release that also switches the CBT map.
TrackerReleaseSwitchesCbt(t, d) ==
    [t EXCEPT ![d].snapshot_is_taken = FALSE, ![d].taken_by = 0,
              ![d].cbt_active = @ + 1, ![d].cbt_dirty = FALSE]

\* tracker_release_snapshot(): clear snapshot_is_taken.
TrackerReleaseSnapshot(t, d) ==
    [t EXCEPT ![d].snapshot_is_taken = FALSE, ![d].taken_by = 0]

\* snapshot_create(): tracker_create_or_get() for dev_id_array[0..n-1].
RECURSIVE GetTrackers(_, _, _)
GetTrackers(t, q, n) ==
    IF n = 0 THEN t ELSE TrackerCreateOrGet(GetTrackers(t, q, n - 1), q[n])

(***************************************************************************)
(* Returning from a control call                                           *)
(***************************************************************************)
RetEv(r) == [op |-> "ret", call |-> r.op, snap |-> r.snap, ret |-> r.ret,
             das |-> r.das, imgs |-> r.imgs, devs |-> r.devs, step |-> r.step]

(***************************************************************************)
(* snapshot_create()                                                       *)
(***************************************************************************)
\* k = 0: every tracker_create_or_get() succeeds; k > 0: the k-th one fails.
SnapshotCreate(c, s, devs, k) ==
    /\ ~oops
    /\ ctl[c].pc = "idle"
    /\ snapshot[s].st = "none"
    /\ \A s2 \in Snaps : s2 < s => snapshot[s2].st # "none"
    /\ k <= Len(devs)
    /\ LET n == IF k = 0 THEN Len(devs) ELSE k - 1
           got == SubSeq(devs, 1, n)
           arr == [i \in 1..Len(devs) |-> IF i <= n THEN devs[i] ELSE 0]
           new == [st |-> "live", kref |-> 1, is_taken |-> FALSE, count |-> n,
                   tracker_array |-> arr,
                   snapimage_array |-> [i \in 1..Len(devs) |-> 0],
                   devs |-> devs]
           l == ListAddTail(HEAD, s, [link_next EXCEPT ![s] = s],
                            [link_prev EXCEPT ![s] = s])
       IN  /\ tracker' = GetTrackers(tracker, got, n)
           /\ IF k = 0
              THEN /\ snapshot' = [snapshot EXCEPT ![s] = new]
                   /\ link_next' = l.next
                   /\ link_prev' = l.prev
              ELSE \* fail: snapshot_put() -> snapshot_free()
                   /\ snapshot' = [snapshot EXCEPT ![s] = FreedSnapshot]
                   /\ UNCHANGED <<link_next, link_prev>>
           /\ ev' = [op |-> "create_ret", snap |-> s, devs |-> devs, failed |-> k,
                     ret |-> IF k = 0 THEN "OK" ELSE "ENODEV",
                     before |-> [d \in Devs |-> tracker[d].ref]]
    /\ UNCHANGED <<diff_area, snapimage, ctl, bio, oops>>
    /\ UNCHANGED notSnap

(***************************************************************************)
(* snapshot_get_by_id(), snapshot_destroy(), snapshot_put()                *)
(***************************************************************************)
\* The traversal of `snapshots` meets s.
SnapshotFound(s) == snapshot[s].st = "live" /\ InRegistry(s)

SnapshotDestroy(c, s) ==
    /\ ~oops
    /\ ctl[c].pc = "idle"
    /\ snapshot[s].st # "none"
    /\ IF SnapshotFound(s)
       THEN LET l == ListDel(s, link_next, link_prev)
            IN  /\ link_next' = l.next
                /\ link_prev' = l.prev
                /\ ctl' = [ctl EXCEPT ![c] = [IdleCtl EXCEPT !.pc = "put",
                              !.op = "destroy", !.snap = s, !.puts = 1]]
                /\ ev' = [op |-> "destroy", snap |-> s]
       ELSE /\ ev' = RetEv([IdleCtl EXCEPT !.op = "destroy", !.snap = s,
                                           !.ret = "ENODEV"])
            /\ UNCHANGED <<link_next, link_prev, ctl>>
    /\ UNCHANGED <<snapshot, tracker, diff_area, snapimage, bio, oops>>
    /\ UNCHANGED notSnap

\* snapimage_free() of every image of s: the first loop of snapshot_release().
FreeImages(im, s) ==
    [i \in DOMAIN im |-> IF im[i].owner = s THEN [im[i] EXCEPT !.st = "freed"]
                         ELSE im[i]]

\* One snapshot_put(). The last reference runs snapshot_free(): a taken
\* snapshot is released first (which must wait for the submit locks), the
\* memory is freed in either case.
SnapshotPut(c) ==
    /\ ~oops
    /\ ctl[c].pc = "put"
    /\ LET s == ctl[c].snap
           r == ctl[c]
       IN  IF snapshot[s].st # "live"
           THEN /\ oops' = TRUE
                /\ ev' = [op |-> "oops", snap |-> s]
                /\ UNCHANGED <<snapshot, snapimage, ctl>>
           ELSE IF snapshot[s].kref > 1
           THEN /\ snapshot' = [snapshot EXCEPT ![s].kref = @ - 1]
                /\ IF r.puts = 1
                   THEN ctl' = [ctl EXCEPT ![c] = IdleCtl] /\ ev' = RetEv(r)
                   ELSE ctl' = [ctl EXCEPT ![c].puts = @ - 1]
                        /\ ev' = [op |-> "put", snap |-> s]
                /\ UNCHANGED <<snapimage, oops>>
           ELSE IF snapshot[s].is_taken
           THEN /\ snapshot' = [snapshot EXCEPT ![s].kref = 0]
                /\ snapimage' = FreeImages(snapimage, s)
                /\ ctl' = [ctl EXCEPT ![c].pc = "rel_lock", ![c].inx = 1]
                /\ ev' = [op |-> "release", snap |-> s]
                /\ UNCHANGED oops
           ELSE /\ snapshot' = [snapshot EXCEPT ![s] = FreedSnapshot]
                /\ IF r.puts = 1
                   THEN ctl' = [ctl EXCEPT ![c] = IdleCtl] /\ ev' = RetEv(r)
                   ELSE ctl' = [ctl EXCEPT ![c].puts = @ - 1]
                        /\ ev' = [op |-> "put", snap |-> s]
                /\ UNCHANGED <<snapimage, oops>>
    /\ UNCHANGED <<link_next, link_prev, tracker, diff_area, bio>>
    /\ UNCHANGED notSnap


(***************************************************************************)
(* snapshot_release()                                                      *)
(***************************************************************************)
\* The non-NULL trackers of snapshot s.
TrackersOf(s) == Range(snapshot[s].tracker_array) \ {0}

\* for (inx ...) tracker_lock(snapshot->tracker_array[inx]);  one per step,
\* each waits for the readers of its tracker.
ReleaseLock(c) ==
    /\ ~oops
    /\ ctl[c].pc = "rel_lock"
    /\ LET s == ctl[c].snap
           d == snapshot[s].tracker_array[ctl[c].inx]
       IN  /\ d # 0 => TrackerLockReady(d)
           /\ tracker' = TrackerLock(tracker, d)
           /\ ctl' = [ctl EXCEPT ![c].inx = @ + 1,
                        ![c].pc = IF ctl[c].inx = snapshot[s].count
                                  THEN "rel_trackers" ELSE "rel_lock"]
           /\ ev' = [op |-> "lock", snap |-> s, dev |-> d]
    /\ UNCHANGED <<link_next, link_prev, snapshot, diff_area, snapimage, bio, oops>>
    /\ UNCHANGED notSnap

\* tracker_release_snapshot() of every tracker, then tracker_unlock() of each.
ReleaseTrackers(c) ==
    /\ ~oops
    /\ ctl[c].pc = "rel_trackers"
    /\ LET s == ctl[c].snap
           ds == TrackersOf(s)
       IN  /\ tracker' = [d \in Devs |->
                 IF d \in ds
                 THEN TrackerUnlock(TrackerReleaseSnapshot(tracker, d), d)[d]
                 ELSE tracker[d]]
           /\ ctl' = [ctl EXCEPT ![c].pc = "rel_detach"]
           /\ ev' = [op |-> "tracker_release", snap |-> s, devs |-> ds]
    /\ UNCHANGED <<link_next, link_prev, snapshot, diff_area, snapimage, bio, oops>>
    /\ UNCHANGED notSnap

\* diff_area_put()
DiffAreaPut(da, i) == IF i = 0 THEN da ELSE [da EXCEPT ![i].st = "freed"]

\* The last loop of snapshot_release(): diff_area_put(tracker->diff_area),
\* tracker->diff_area = NULL, tracker_put(tracker), tracker_array[inx] = NULL;
\* then the rest of snapshot_free().
ReleaseDetach(c) ==
    /\ ~oops
    /\ ctl[c].pc = "rel_detach"
    /\ LET s == ctl[c].snap
           ds == TrackersOf(s)
           r == ctl[c]
       IN  /\ diff_area' = [i \in DOMAIN diff_area |->
                 IF \E d \in ds : tracker[d].diff_area = i
                 THEN DiffAreaPut(diff_area, i)[i] ELSE diff_area[i]]
           /\ tracker' = [d \in Devs |->
                 IF d \in ds
                 THEN [TrackerPut(tracker, d)[d] EXCEPT !.diff_area = 0]
                 ELSE tracker[d]]
           /\ snapshot' = [snapshot EXCEPT ![s] = FreedSnapshot]
           /\ IF r.puts = 1
              THEN ctl' = [ctl EXCEPT ![c] = IdleCtl] /\ ev' = RetEv(r)
              ELSE ctl' = [ctl EXCEPT ![c].puts = @ - 1, ![c].pc = "put"]
                   /\ ev' = [op |-> "put", snap |-> s]
    /\ UNCHANGED <<link_next, link_prev, snapimage, bio, oops>>
    /\ UNCHANGED notSnap

(***************************************************************************)
(* snapshot_take()                                                         *)
(***************************************************************************)
\* diff_area_new(): a fully initialised diff area of snapshot s on device d.
DiffAreaNew(s, d) == [st |-> "live", owner |-> s, dev |-> d, corrupted |-> FALSE]

\* Allocate a diff area for each of the first n trackers of s and store it
\* in tracker->diff_area.
RECURSIVE AllocDiffAreas(_, _, _, _)
AllocDiffAreas(st, s, arr, n) ==
    IF n = 0 THEN st
    ELSE LET p == AllocDiffAreas(st, s, arr, n - 1)
             d == arr[n]
         IN  IF d = 0 THEN p
             ELSE [da |-> Append(p.da, DiffAreaNew(s, d)),
                   tr |-> [p.tr EXCEPT ![d].diff_area = Len(p.da) + 1]]

\* Lookup, the is_taken and count checks, and the allocation loop.
\* k = 0: every diff_area_new() succeeds; k > 0: the k-th one fails.
TakeBegin(c, s, k) ==
    /\ ~oops
    /\ ctl[c].pc = "idle"
    /\ snapshot[s].st # "none"
    /\ LET r0 == [IdleCtl EXCEPT !.op = "take", !.snap = s,
                                 !.devs = Range(snapshot[s].tracker_array) \ {0}]
           cnt == snapshot[s].count
           n == IF k = 0 THEN cnt ELSE k - 1
           a == AllocDiffAreas([da |-> diff_area, tr |-> tracker], s,
                               snapshot[s].tracker_array, n)
           das == (Len(diff_area) + 1)..Len(a.da)
       IN  IF ~SnapshotFound(s)
           THEN /\ k = 0
                /\ ev' = RetEv([r0 EXCEPT !.ret = "ESRCH"])
                /\ UNCHANGED <<snapshot, tracker, diff_area, ctl>>
           ELSE IF snapshot[s].is_taken \/ cnt = 0
           THEN /\ k = 0
                /\ snapshot' = [snapshot EXCEPT ![s].kref = @ + 1]
                /\ ctl' = [ctl EXCEPT ![c] = [r0 EXCEPT !.pc = "put", !.puts = 1,
                     !.ret = IF snapshot[s].is_taken THEN "EALREADY" ELSE "ENODEV"]]
                /\ ev' = [op |-> "take_begin", snap |-> s]
                /\ UNCHANGED <<tracker, diff_area>>
           ELSE /\ k \in 0..cnt
                /\ snapshot' = [snapshot EXCEPT ![s].kref = @ + 1]
                /\ diff_area' = a.da
                /\ tracker' = a.tr
                /\ ctl' = [ctl EXCEPT ![c] = [r0 EXCEPT !.das = das, !.inx = 1,
                     !.pc = IF k = 0 THEN "lock" ELSE "fail",
                     !.ret = IF k = 0 THEN "OK" ELSE "ENOMEM",
                     !.step = IF k = 0 THEN "none" ELSE "alloc"]]
                /\ ev' = [op |-> "take_begin", snap |-> s]
    /\ UNCHANGED <<link_next, link_prev, snapimage, bio, oops>>
    /\ UNCHANGED notSnap


\* for (inx ...) tracker_lock(snapshot->tracker_array[inx]);  one per step.
TakeLock(c) ==
    /\ ~oops
    /\ ctl[c].pc = "lock"
    /\ LET s == ctl[c].snap
           d == snapshot[s].tracker_array[ctl[c].inx]
       IN  /\ d # 0 => TrackerLockReady(d)
           /\ tracker' = TrackerLock(tracker, d)
           /\ ctl' = [ctl EXCEPT ![c].inx = @ + 1,
                        ![c].pc = IF ctl[c].inx = snapshot[s].count
                                  THEN "take" ELSE "lock"]
           /\ ev' = [op |-> "lock", snap |-> s, dev |-> d]
    /\ UNCHANGED <<link_next, link_prev, snapshot, diff_area, snapimage, bio, oops>>
    /\ UNCHANGED notSnap

\* The take loop and its roll-back, all under the submit locks.
\* k = 0: every tracker_take_snapshot() succeeds; k > 0: the k-th one fails,
\* and the trackers before it are released again (their CBT map stays
\* switched).
TakeTrackers(c, k) ==
    /\ ~oops
    /\ ctl[c].pc = "take"
    /\ LET s == ctl[c].snap
           arr == snapshot[s].tracker_array
           n == IF k = 0 THEN snapshot[s].count ELSE k - 1
           ds == {arr[j] : j \in 1..n} \ {0}
       IN  /\ k \in 0..snapshot[s].count
           /\ k > 0 => arr[k] # 0
           /\ tracker' = [d \in Devs |->
                 IF d \notin ds THEN tracker[d]
                 ELSE IF k = 0 THEN TrackerTakeSnapshot(tracker, d, s)[d]
                 ELSE TrackerReleaseSnapshot(
                          TrackerTakeSnapshot(tracker, d, s), d)[d]]
           /\ snapshot' = [snapshot EXCEPT ![s].is_taken = (k = 0)]
           /\ ctl' = [ctl EXCEPT ![c].pc = "unlock",
                 ![c].ret = IF k = 0 THEN "OK" ELSE "ETAKE",
                 ![c].step = IF k = 0 THEN "none" ELSE "take"]
           /\ ev' = [op |-> "tracker_take", snap |-> s, devs |-> ds, failed |-> k]
    /\ UNCHANGED <<link_next, link_prev, diff_area, snapimage, bio, oops>>
    /\ UNCHANGED notSnap

\* for (inx ...) tracker_unlock(snapshot->tracker_array[inx]);
TakeUnlock(c) ==
    /\ ~oops
    /\ ctl[c].pc = "unlock"
    /\ LET s == ctl[c].snap
       IN  /\ tracker' = [d \in Devs |->
                 IF d \in TrackersOf(s) THEN TrackerUnlock(tracker, d)[d]
                 ELSE tracker[d]]
           /\ ctl' = [ctl EXCEPT ![c].pc = IF ctl[c].ret = "OK" THEN "post"
                                           ELSE "fail"]
           /\ ev' = [op |-> "unlock", snap |-> s, ret |-> ctl[c].ret]
    /\ UNCHANGED <<link_next, link_prev, snapshot, diff_area, snapimage, bio, oops>>
    /\ UNCHANGED notSnap

\* snapimage_create(): an image bound to the diff area of the tracker.
SnapimageNew(s, d, da) == [st |-> "live", owner |-> s, dev |-> d, da |-> da]

RECURSIVE CreateImages(_, _, _, _)
CreateImages(im, s, arr, n) ==
    IF n = 0 THEN im
    ELSE Append(CreateImages(im, s, arr, n - 1),
                SnapimageNew(s, arr[n], tracker[arr[n]].diff_area))

\* After thaw: the corruption check, then the image loop.  A failing
\* snapimage_create() leaves the loop with break and reaches `goto out`.
\* k = 0: every image is created; k > 0: the k-th snapimage_create() fails.
TakePost(c, k) ==
    /\ ~oops
    /\ ctl[c].pc = "post"
    /\ LET s == ctl[c].snap
           arr == snapshot[s].tracker_array
           cnt == snapshot[s].count
           n == IF k = 0 THEN cnt ELSE k - 1
           im == CreateImages(snapimage, s, arr, n)
           base == Len(snapimage)
       IN  IF \E d \in TrackersOf(s) : tracker[d].diff_area # 0
                 /\ diff_area[tracker[d].diff_area].corrupted
           THEN /\ k = 0
                /\ ctl' = [ctl EXCEPT ![c].pc = "fail", ![c].ret = "EFAULT",
                                      ![c].step = "corrupted"]
                /\ ev' = [op |-> "take_corrupted", snap |-> s]
                /\ UNCHANGED <<snapshot, snapimage>>
           ELSE /\ k \in 0..cnt
                /\ Len(im) <= MaxImg
                /\ snapimage' = im
                /\ snapshot' = [snapshot EXCEPT ![s].snapimage_array =
                       [j \in DOMAIN @ |-> IF j <= n THEN base + j ELSE @[j]]]
                /\ ctl' = [ctl EXCEPT ![c].pc = "put", ![c].puts = 1,
                       ![c].imgs = (base + 1)..Len(im),
                       ![c].ret = IF k = 0 THEN "OK" ELSE "EIMG",
                       ![c].step = IF k = 0 THEN "none" ELSE "images"]
                /\ ev' = [op |-> "take_images", snap |-> s, failed |-> k]
    /\ UNCHANGED <<link_next, link_prev, tracker, diff_area, bio, oops>>
    /\ UNCHANGED notSnap

\* fail: list_del(&snapshot->link); then snapshot_put() twice (fail:, out:).
TakeFail(c) ==
    /\ ~oops
    /\ ctl[c].pc = "fail"
    /\ LET s == ctl[c].snap
           l == ListDel(s, link_next, link_prev)
       IN  IF ListDelOk(s, link_next, link_prev)
           THEN /\ link_next' = l.next
                /\ link_prev' = l.prev
                /\ ctl' = [ctl EXCEPT ![c].pc = "put", ![c].puts = 2]
                /\ ev' = [op |-> "take_fail", snap |-> s]
                /\ UNCHANGED oops
           ELSE /\ oops' = TRUE
                /\ ev' = [op |-> "oops", snap |-> s]
                /\ UNCHANGED <<link_next, link_prev, ctl>>
    /\ UNCHANGED <<snapshot, tracker, diff_area, snapimage, bio>>
    /\ UNCHANGED notSnap


(***************************************************************************)
(* The per-bio pipeline of the filter of an original device                *)
(***************************************************************************)
\* The submit lock is held (or being taken) exclusively.
SubmitLockContended(d) == tracker[d].lock_w = 1

\* Step 1: take the submit lock shared.  A NOWAIT bio that finds the lock
\* contended is completed with WOULDBLOCK; any other bio waits.
BioSubmit(b, d, nowait, write) ==
    /\ ~oops
    /\ bio[b].pc = "idle"
    /\ tracker[d].exists
    /\ IF SubmitLockContended(d)
       THEN /\ nowait
            /\ ev' = [op |-> "bio_wouldblock", bio |-> b, dev |-> d]
            /\ UNCHANGED <<tracker, bio>>
       ELSE /\ tracker' = [tracker EXCEPT ![d].lock_r = @ + 1]
            /\ bio' = [bio EXCEPT ![b] = [IdleBio EXCEPT !.pc = "locked",
                         !.dev = d, !.write = write]]
            /\ ev' = [op |-> "bio_enter", bio |-> b, dev |-> d]
    /\ UNCHANGED <<link_next, link_prev, snapshot, diff_area, snapimage, ctl, oops>>
    /\ UNCHANGED notSnap

\* Leave the pipeline: drop the shared lock, the bio goes to the device.
BioLeave(t, d) == [t EXCEPT ![d].lock_r = @ - 1]

\* Steps 2 and 3: a bio that is not a write passes; a write marks the CBT map.
BioCbtSet(b) ==
    /\ ~oops
    /\ bio[b].pc = "locked"
    /\ LET d == bio[b].dev
       IN  IF ~bio[b].write
           THEN /\ tracker' = BioLeave(tracker, d)
                /\ bio' = [bio EXCEPT ![b] = IdleBio]
                /\ ev' = [op |-> "bio_pass", bio |-> b, dev |-> d, why |-> "read"]
           ELSE /\ tracker' = [tracker EXCEPT ![d].cbt_dirty = TRUE]
                /\ bio' = [bio EXCEPT ![b].pc = "cbt"]
                /\ ev' = [op |-> "bio_cbt", bio |-> b, dev |-> d]
    /\ UNCHANGED <<link_next, link_prev, snapshot, diff_area, snapimage, ctl, oops>>
    /\ UNCHANGED notSnap

\* Step 4: look at snapshot_is_taken.
BioCheckTaken(b) ==
    /\ ~oops
    /\ bio[b].pc = "cbt"
    /\ LET d == bio[b].dev
       IN  IF ~tracker[d].snapshot_is_taken
           THEN /\ tracker' = BioLeave(tracker, d)
                /\ bio' = [bio EXCEPT ![b] = IdleBio]
                /\ ev' = [op |-> "bio_pass", bio |-> b, dev |-> d, why |-> "not_taken"]
           ELSE /\ bio' = [bio EXCEPT ![b].pc = "cow", ![b].by = tracker[d].taken_by]
                /\ ev' = [op |-> "bio_taken", bio |-> b, dev |-> d]
                /\ UNCHANGED tracker
    /\ UNCHANGED <<link_next, link_prev, snapshot, diff_area, snapimage, ctl, oops>>
    /\ UNCHANGED notSnap

\* Steps 5 and 6: a corrupted diff area lets the bio pass; otherwise
\* diff_area.copy() runs against tracker->diff_area, and an error of the
\* copy latches the corruption.
BioCopy(b, ok) ==
    /\ ~oops
    /\ bio[b].pc = "cow"
    /\ LET d == bio[b].dev
           da == tracker[d].diff_area
       IN  IF da = 0
           THEN /\ oops' = TRUE
                /\ ev' = [op |-> "oops", snap |-> 0]
                /\ UNCHANGED <<tracker, diff_area, bio>>
           ELSE /\ tracker' = BioLeave(tracker, d)
                /\ bio' = [bio EXCEPT ![b] = IdleBio]
                /\ UNCHANGED oops
                /\ IF diff_area[da].corrupted
                   THEN /\ ok
                        /\ ev' = [op |-> "bio_pass", bio |-> b, dev |-> d,
                                  why |-> "corrupted", da |-> da, by |-> bio[b].by]
                        /\ UNCHANGED diff_area
                   ELSE /\ diff_area' = [diff_area EXCEPT ![da].corrupted = ~ok]
                        /\ ev' = [op |-> "bio_cow", bio |-> b, dev |-> d,
                                  da |-> da, by |-> bio[b].by]
    /\ UNCHANGED <<link_next, link_prev, snapshot, snapimage, ctl>>
    /\ UNCHANGED notSnap

(***************************************************************************)
(* The snapshot lifecycle with bios in flight                              *)
(***************************************************************************)
NextSnapshot ==
    \/ \E c \in SoloCaller, s \in Snaps, devs \in DevLists, k \in 0..NDev :
          SnapshotCreate(c, s, devs, k)
    \/ \E c \in SoloCaller, s \in Snaps : SnapshotDestroy(c, s)
    \/ \E c \in SoloCaller : SnapshotPut(c)
    \/ \E c \in SoloCaller : ReleaseLock(c)
    \/ \E c \in SoloCaller : ReleaseTrackers(c)
    \/ \E c \in SoloCaller : ReleaseDetach(c)
    \/ \E c \in SoloCaller, s \in Snaps, k \in 0..NDev  :
          TakeBegin(c, s, k) /\ Len(diff_area') <= MaxDa
    \/ \E c \in SoloCaller : TakeLock(c)
    \/ \E c \in SoloCaller, k \in 0..NDev : TakeTrackers(c, k)
    \/ \E c \in SoloCaller : TakeUnlock(c)
    \/ \E c \in SoloCaller, k \in 0..NDev : TakePost(c, k)
    \/ \E c \in SoloCaller : TakeFail(c)
    \/ \E b \in Bios, d \in Devs, nowait \in BOOLEAN, write \in BOOLEAN :
          BioSubmit(b, d, nowait, write)
    \/ \E b \in Bios : BioCbtSet(b)
    \/ \E b \in Bios : BioCheckTaken(b)
    \/ \E b \in Bios, ok \in BOOLEAN : BioCopy(b, ok)

SpecSnapshot == InitSnapshot /\ [][NextSnapshot]_vars


(***************************************************************************)
(* Properties of the snapshot lifecycle                                    *)
(***************************************************************************)
TakeReturned == ev.op = "ret" /\ ev.call = "take"

\* C4: a bio that observed "snapshot taken" runs COW against (or finds
\* corrupted) a fully initialised diff area that belongs to the snapshot
\* which took the tracker.
BioFindsDiffAreaOfTaker ==
    (ev.op = "bio_cow" \/ (ev.op = "bio_pass" /\ ev.why = "corrupted"))
        => /\ diff_area[ev.da].st = "live"
           /\ diff_area[ev.da].owner = ev.by

LockHeldBy(c, d) ==
    /\ ctl[c].pc \in {"take", "unlock", "rel_trackers"}
    /\ d \in TrackersOf(ctl[c].snap)

TakeAllOrNothing ==
    (TakeReturned /\ ev.ret \notin {"ESRCH", "EALREADY", "ENODEV"})
        => IF ev.ret = "OK"
           THEN \A d \in ev.devs : tracker[d].snapshot_is_taken
           ELSE \A d \in ev.devs : ~tracker[d].snapshot_is_taken

\* C8: when snapshot_take() fails while creating the images, it returns an
\* error with the created images destroyed, the trackers released, the diff
\* areas destroyed and the snapshot out of the registry.
ImageFailureAborts ==
    (TakeReturned /\ ev.step = "images")
        => /\ ev.ret # "OK"
           /\ \A i \in ev.imgs : snapimage[i].st = "freed"
           /\ \A d \in ev.devs : ~tracker[d].snapshot_is_taken
           /\ \A i \in ev.das : diff_area[i].st = "freed"
           /\ ~InRegistry(ev.snap)

\* C9: when snapshot_take() fails while allocating the diff areas or while
\* taking the trackers, on return the snapshot is out of the registry, every
\* diff area the call allocated is destroyed and no tracker of the snapshot
\* references a diff area.
EarlyFailureCleansUp ==
    (TakeReturned /\ ev.step \in {"alloc", "take"})
        => /\ ~InRegistry(ev.snap)
           /\ \A i \in ev.das : diff_area[i].st = "freed"
           /\ \A d \in ev.devs : tracker[d].diff_area = 0

\* C10: when snapshot_create() fails at a device, it returns an error,
\* registers nothing, and every tracker has the reference count it had
\* before the call (a tracker the call created keeps only its attachment).
CreateFailureDropsRefs ==
    (ev.op = "create_ret" /\ ev.ret # "OK")
        => /\ ~InRegistry(ev.snap)
           /\ \A d \in Devs :
                 tracker[d].ref = IF ev.before[d] > 0 THEN ev.before[d]
                                  ELSE IF tracker[d].exists THEN 1 ELSE 0

\* A step of snapshot_destroy(), of a snapshot_put() or of the
\* snapshot_release() it runs, made by caller c.
ReleaseStep(c) ==
    /\ ctl'[c] # ctl[c]
    /\ \/ ctl[c].pc \in {"put", "rel_lock", "rel_trackers", "rel_detach"}
       \/ ctl'[c].op = "destroy"

\* C17: no step of a release or destroy changes the CBT map of any
\* tracker: the active snap-number and the marks written since the last
\* take are the same after the step as before it.
ReleaseKeepsCbt ==
    [][\A c \in Callers :
         ReleaseStep(c)
           => \A d \in Devs : /\ tracker'[d].cbt_active = tracker[d].cbt_active
                              /\ tracker'[d].cbt_dirty = tracker[d].cbt_dirty]_vars

\* A destroy returned after releasing a tracker whose CBT map has marks
\* made during the snapshot.
ReleaseKeepsCbtWitness ==
    /\ ev.op = "ret" /\ ev.call = "destroy" /\ ev.ret = "OK"
    /\ \E d \in Devs : /\ tracker[d].cbt_active >= 2
                       /\ tracker[d].cbt_dirty
                       /\ ~tracker[d].snapshot_is_taken
                       /\ tracker[d].diff_area = 0


(***************************************************************************)
(* The chunk handlers of module/chunk.c.  A handler works on                *)
(* S = [chunk, area, store, io] and returns it changed.                    *)
(***************************************************************************)
Cur == [chunk |-> chunk, area |-> area, store |-> store, io |-> io]

\* A chunk_state_unset() that clears nothing.
ChunkStateUnsetNothing(S, c, f) == S

\* chunk_state_set(), chunk_state_unset(), chunk_state_check()
ChunkStateSet(S, c, f) == [S EXCEPT !.chunk[c].state = @ \cup {f}]
ChunkStateUnset(S, c, f) == [S EXCEPT !.chunk[c].state = @ \ {f}]
ChunkStateCheck(S, c, f) == f \in S.chunk[c].state

\* A return that keeps the chunk lock.
ChunkKeepLocked(S, c) == S

\* mutex_unlock(&chunk->lock)
ChunkUnlock(S, c) == [S EXCEPT !.chunk[c].lock = FALSE]

\* A latch that keeps the last error.
DiffAreaSetCorruptedLast(a, err) == [a EXCEPT !.corrupted = TRUE, !.error = err]

\* diff_area_set_corrupted(diff_area, error): the flag latches and keeps
\* the first error.
DiffAreaSetCorrupted(a, err) ==
    IF a.corrupted THEN a ELSE [a EXCEPT !.corrupted = TRUE, !.error = err]

\* chunk_store_failed(): FAILED, the buffer released, the store kfree()d
\* (the pointer stays), the lock dropped, the diff area corrupted.
ChunkStoreFailed(S, c, err) ==
    [S EXCEPT !.chunk[c].state = @ \cup {"FAILED"},
              !.chunk[c].diff_buffer = NoBuffer,
              !.chunk[c].store_freed = @ \/ S.chunk[c].diff_store # 0,
              !.chunk[c].lock = FALSE,
              !.area = DiffAreaSetCorrupted(@, err)]

\* A diff storage that never remembers that it ran out.
StorageNeverOverflowed(S) == FALSE

\* The diff storage already reported that it ran out.
StorageOverflowed(S) == S.area.overflow

\* No sub-extent of a chunk is left in the diff storage.
StorageExhausted(S) == Len(S.store) >= S.area.capacity

\* diff_storage_get_store() on an exhausted storage: NO_SPACE; the first
\* such request emits OUT_OF_SPACE.  nospace notes that chunk c was refused.
DiffStorageNoSpace(S, c) ==
    [S EXCEPT !.area.out_of_space = IF StorageOverflowed(S) THEN @ ELSE @ + 1,
              !.area.overflow = TRUE,
              !.chunk[c].nospace = TRUE]

\* diff_storage_get_store(): one more extent, nothing written to it yet.
DiffStorageGetStore(S, c) ==
    [S EXCEPT !.store = Append(@, FreshBuffer),
              !.chunk[c].diff_store = Len(S.store) + 1,
              !.chunk[c].stores = @ + 1]

\* chunk_async_store_diff(): STORING is set and the write is submitted.
ChunkAsyncStoreDiff(S, c) ==
    [ChunkStateSet(S, c, "STORING") EXCEPT !.io = @ \cup {[chunk |-> c, write |-> TRUE]}]

\* chunk_asunc_load_orig(): LOADING is set and the read is submitted.
ChunkAsyncLoadOrig(S, c) ==
    [ChunkStateSet(S, c, "LOADING") EXCEPT !.io = @ \cup {[chunk |-> c, write |-> FALSE]}]

\* A store is reserved on every storing.
AlwaysNeedsStore(S, c) == TRUE

\* A storing that only puts the chunk into the cache.
ChunkScheduleStoringOnlyCaches(S, c, got, sub) ==
    ChunkUnlock(
        IF ChunkStateCheck(S, c, "IN_CACHE") THEN S
        ELSE [ChunkStateSet(S, c, "IN_CACHE") EXCEPT
                 !.area.caching_chunks = Append(@, c),
                 !.area.caching_chunks_count = @ + 1], c)

\* The chunk has no store yet and needs one reserved.
NeedsStore(S, c) == S.chunk[c].diff_store = 0

\* chunk_schedule_storing().  got: diff_storage_get_store() can allocate
\* its descriptor; sub: chunk_async_store_diff() succeeds.
ChunkScheduleStoring(S, c, got, sub) ==
    IF S.area.in_memory THEN ChunkUnlock(S, c)
    ELSE IF NeedsStore(S, c) /\ StorageExhausted(S)
    THEN ChunkStoreFailed(DiffStorageNoSpace(S, c), c, "NO_SPACE")
    ELSE IF NeedsStore(S, c) /\ ~got
    THEN ChunkStoreFailed(S, c, "NOMEM")
    ELSE LET S1 == IF NeedsStore(S, c) THEN DiffStorageGetStore(S, c) ELSE S
         IN  IF sub THEN ChunkAsyncStoreDiff(S1, c)
             ELSE ChunkStoreFailed(ChunkStateSet(S1, c, "STORING"), c, "IO")

\* chunk_schedule_caching()
ChunkScheduleCaching(S, c) ==
    ChunkUnlock(
        IF ChunkStateCheck(S, c, "IN_CACHE") THEN S
        ELSE [ChunkStateSet(S, c, "IN_CACHE") EXCEPT
                 !.area.caching_chunks = Append(@, c),
                 !.area.caching_chunks_count = @ + 1], c)

\* need_to_cleanup: the cache worker has work to do.
NeedToCleanup == area.caching_chunks_count > ChunkMaximumInCache

\* chunk_notify_load()
ChunkNotifyLoad(S, c, got, sub) ==
    IF S.chunk[c].error THEN ChunkStoreFailed(S, c, "IO")
    ELSE IF ChunkStateCheck(S, c, "FAILED") THEN ChunkUnlock(S, c)
    ELSE IF ChunkStateCheck(S, c, "LOADING")
    THEN ChunkScheduleStoring(
             ChunkStateSet(ChunkStateUnset(S, c, "LOADING"), c, "BUFFER_READY"),
             c, got, sub)
    ELSE ChunkUnlock(S, c)

\* chunk_notify_store()
ChunkNotifyStore(S, c) ==
    IF S.chunk[c].error THEN ChunkStoreFailed(S, c, "IO")
    ELSE IF ChunkStateCheck(S, c, "FAILED") THEN ChunkUnlock(S, c)
    ELSE IF ChunkStateCheck(S, c, "STORING")
    THEN ChunkScheduleCaching(
             ChunkStateSet(ChunkStateUnset(S, c, "STORING"), c, "STORE_READY"), c)
    ELSE ChunkUnlock(S, c)

\* Install S as the next state of the data path.
Becomes(S) ==
    /\ chunk' = S.chunk
    /\ area' = S.area
    /\ store' = S.store
    /\ io' = S.io

(***************************************************************************)
(* The block range of a write (tracker_cow)                                *)
(***************************************************************************)
\* A corrupted flag that is never seen.
DiffAreaNeverCorrupted == FALSE

\* diff_area_is_corrupted()
DiffAreaIsCorrupted == area.corrupted

\* The first block rounded up instead of down.
BlkStartRoundedUp(start, cnt) == (start + ChunkSectors - 1) \div ChunkSectors

\* The last block decremented whether or not the write ends on a boundary.
BlkLastAlwaysLess(start, cnt) == ((start + cnt) \div ChunkSectors) - 1

\* blk_start = start >> snapstore_block_shift()
BlkStart(start, cnt) == start \div ChunkSectors

\* blk_last = (start + cnt) >> shift; one less if start + cnt ends a block.
BlkLast(start, cnt) ==
    IF (start + cnt) % ChunkSectors = 0
    THEN ((start + cnt) \div ChunkSectors) - 1
    ELSE (start + cnt) \div ChunkSectors

\* The chunks a write of cnt sectors at start really touches.
Overlapped(start, cnt) == {ChunkOf(n) : n \in start..(start + cnt - 1)}


(***************************************************************************)
(* A write bio on the original device, while the snapshot is taken         *)
(***************************************************************************)
\* The filter takes the bio.  tracker_cow() returns at once when the
\* snapshot data is corrupted: the bio passes.
WriteBegin(w, start, cnt) ==
    /\ wr[w].pc = "idle"
    /\ start + cnt <= NSectors
    /\ wr' = [wr EXCEPT ![w] = [pc |-> IF DiffAreaIsCorrupted THEN "pass" ELSE "copy",
                                start |-> start, cnt |-> cnt,
                                blk |-> BlkStart(start, cnt)]]
    /\ cev' = [op |-> "write_begin", w |-> w]
    /\ UNCHANGED <<orig, chunk, area, store, io>>
    /\ UNCHANGED notCow

\* A copy that takes every chunk for empty.
CowBlockNeverAlready(c) == FALSE

\* cow_block_update_state(blk, empty, reading) returns -EALREADY: the chunk
\* is being read or was read.
CowBlockAlready(c) == chunk[c].state # {}

\* One round of the loop over blk_start..blk_last: take the chunk; a chunk
\* that is being read or was read is left alone; an empty one gets a
\* buffer and its read from the original is started.  ok: the read could
\* be started; otherwise the loop ends and the snapshot data is corrupted.
CopyChunk(w, ok) ==
    /\ wr[w].pc = "copy"
    /\ LET c == wr[w].blk
           last == BlkLast(wr[w].start, wr[w].cnt)
           S0 == [Cur EXCEPT !.chunk[c].lock = TRUE,
                             !.chunk[c].diff_buffer = FreshBuffer]
       IN  IF c > last
           THEN /\ ok
                /\ wr' = [wr EXCEPT ![w].pc = "wait"]
                /\ cev' = [op |-> "copy_done", w |-> w]
                /\ UNCHANGED <<chunk, area, store, io>>
           ELSE /\ ~chunk[c].lock
                /\ IF CowBlockAlready(c)
                   THEN /\ ok
                        /\ wr' = [wr EXCEPT ![w].blk = c + 1]
                        /\ cev' = [op |-> "copy_skip", w |-> w, chunk |-> c]
                        /\ UNCHANGED <<chunk, area, store, io>>
                   ELSE IF ok
                   THEN /\ Becomes(ChunkAsyncLoadOrig(S0, c))
                        /\ wr' = [wr EXCEPT ![w].blk = c + 1]
                        /\ cev' = [op |-> "copy_load", w |-> w, chunk |-> c]
                   ELSE /\ area' = DiffAreaSetCorrupted(area, "IO")
                        /\ wr' = [wr EXCEPT ![w].pc = "wait"]
                        /\ cev' = [op |-> "copy_error", w |-> w, chunk |-> c]
                        /\ UNCHANGED <<chunk, store, io>>
    /\ UNCHANGED orig
    /\ UNCHANGED notCow

\* The bio is let through to the original device once no chunk of its range
\* is still being read; a bio that found the diff area corrupted passes at
\* once.
WriteApply(w) ==
    /\ wr[w].pc \in {"wait", "pass"}
    /\ wr[w].pc = "wait" =>
         \A c \in BlkStart(wr[w].start, wr[w].cnt)..BlkLast(wr[w].start, wr[w].cnt) :
            "LOADING" \notin chunk[c].state
    /\ orig' = [c \in Chunks |->
                  IF c \in Overlapped(wr[w].start, wr[w].cnt)
                  THEN NewContent ELSE orig[c]]
    /\ wr' = [wr EXCEPT ![w] = IdleWr]
    /\ cev' = [op |-> "write_applied", w |-> w, start |-> wr[w].start,
               cnt |-> wr[w].cnt, cow |-> wr[w].pc = "wait"]
    /\ UNCHANGED <<chunk, area, store, io>>
    /\ UNCHANGED notCow

(***************************************************************************)
(* Completion of the asynchronous chunk I/O                                *)
(***************************************************************************)
\* notify_fn() and the queued chunk_notify_load().  ok: the read succeeded
\* and the buffer holds the chunk of the original device.
LoadDone(c, ok, got, sub) ==
    /\ [chunk |-> c, write |-> FALSE] \in io
    /\ LET S0 == [Cur EXCEPT !.io = @ \ {[chunk |-> c, write |-> FALSE]},
                             !.chunk[c].error = ~ok,
                             !.chunk[c].diff_buffer =
                                 IF ok THEN OrigContent(c) ELSE @]
       IN  Becomes(ChunkNotifyLoad(S0, c, got, sub))
    /\ cev' = [op |-> "load_done", chunk |-> c, ok |-> ok]
    /\ UNCHANGED <<orig, wr>>
    /\ UNCHANGED notCow

\* notify_fn() and the queued chunk_notify_store().  ok: the write succeeded
\* and the extent holds the buffer.
StoreDone(c, ok) ==
    /\ [chunk |-> c, write |-> TRUE] \in io
    /\ LET S0 == [Cur EXCEPT !.io = @ \ {[chunk |-> c, write |-> TRUE]},
                             !.chunk[c].error = ~ok,
                             !.store[chunk[c].diff_store] =
                                 IF ok THEN chunk[c].diff_buffer ELSE @]
       IN  Becomes(ChunkNotifyStore(S0, c))
    /\ cev' = [op |-> "store_done", chunk |-> c, ok |-> ok]
    /\ UNCHANGED <<orig, wr>>
    /\ UNCHANGED notCow

\* The cache worker: the least recent chunk of the cache gives its buffer
\* back and loses BUFFER_READY and IN_CACHE.
CacheCleanup ==
    /\ NeedToCleanup
    /\ area.caching_chunks # <<>>
    /\ LET c == Head(area.caching_chunks)
       IN  /\ ~chunk[c].lock
           /\ chunk' = [chunk EXCEPT ![c].diff_buffer = NoBuffer,
                           ![c].state = @ \ {"BUFFER_READY", "IN_CACHE"}]
           /\ area' = [area EXCEPT !.caching_chunks = Tail(@),
                                   !.caching_chunks_count = @ - 1]
           /\ cev' = [op |-> "evict", chunk |-> c]
    /\ UNCHANGED <<orig, store, io, wr>>
    /\ UNCHANGED notCow


(***************************************************************************)
(* The snapshot image                                                      *)
(***************************************************************************)
\* What a read of chunk c of the image is served from: the buffer of the
\* chunk when it has one, else the diff storage when the chunk is stored,
\* else the original device.
ImageContent(c) ==
    IF "BUFFER_READY" \in chunk[c].state THEN chunk[c].diff_buffer
    ELSE IF "STORE_READY" \in chunk[c].state THEN store[chunk[c].diff_store]
    ELSE OrigContent(c)

\* The chunk with its content in the buffer, as image_io leaves it when the
\* content came from the diff storage.
WithBuffer(S, c) ==
    [S EXCEPT !.chunk[c].diff_buffer = ImageContent(c),
              !.chunk[c].state = @ \cup {"BUFFER_READY"}]

\* Where the content of chunk c comes from.
ImageSource(c) ==
    IF "BUFFER_READY" \in chunk[c].state THEN "buffer"
    ELSE IF "STORE_READY" \in chunk[c].state THEN "store"
    ELSE "orig"

\* A read of chunk c of the image.  A corrupted diff area gives no data.
ImageRead(c) ==
    /\ ~chunk[c].lock
    /\ IF DiffAreaIsCorrupted \/ "FAILED" \in chunk[c].state
       THEN /\ cev' = [op |-> "image_read", chunk |-> c, ok |-> FALSE,
                       err |-> "NO_DATA"]
            /\ UNCHANGED <<chunk, area, store, io>>
       ELSE /\ cev' = [op |-> "image_read", chunk |-> c, ok |-> TRUE,
                       data |-> ImageContent(c), from |-> ImageSource(c)]
            /\ IF "STORE_READY" \in chunk[c].state
                  /\ "BUFFER_READY" \notin chunk[c].state
               THEN Becomes(ChunkScheduleCaching(WithBuffer(Cur, c), c))
               ELSE UNCHANGED <<chunk, area, store, io>>
    /\ UNCHANGED <<orig, wr>>
    /\ UNCHANGED notCow

\* A write into chunk c of the image: the buffer of the chunk is changed,
\* the chunk is DIRTY and its storing is scheduled.
ImageWrite(c, got, sub) ==
    /\ ~chunk[c].lock
    /\ chunk[c].img < MaxImgWrite
    /\ IF DiffAreaIsCorrupted \/ "FAILED" \in chunk[c].state
       THEN /\ cev' = [op |-> "image_write", chunk |-> c, ok |-> FALSE,
                       err |-> "NO_DATA"]
            /\ UNCHANGED <<chunk, area, store, io>>
       ELSE LET n == chunk[c].img + 1
                S0 == [WithBuffer(Cur, c) EXCEPT
                         !.chunk[c].lock = TRUE,
                         !.chunk[c].diff_buffer =
                             ImageWritten(ImageContent(c), c, n),
                         !.chunk[c].state = @ \cup {"DIRTY"},
                         !.chunk[c].img = n]
            IN  /\ Becomes(ChunkScheduleStoring(S0, c, got, sub))
                /\ cev' = [op |-> "image_write", chunk |-> c, ok |-> TRUE]
    /\ UNCHANGED <<orig, wr>>
    /\ UNCHANGED notCow

(***************************************************************************)
(* The data path of a taken snapshot                                       *)
(***************************************************************************)
NextCow ==
    \/ \E w \in SoloWriter, start \in Sectors, cnt \in 1..MaxCnt :
          WriteBegin(w, start, cnt)
    \/ \E w \in SoloWriter, ok \in BOOLEAN : CopyChunk(w, ok)
    \/ \E w \in SoloWriter : WriteApply(w)
    \/ \E c \in Chunks, ok \in BOOLEAN, got \in BOOLEAN, sub \in BOOLEAN :
          LoadDone(c, ok, got, sub)
    \/ \E c \in Chunks, ok \in BOOLEAN : StoreDone(c, ok)
    \/ CacheCleanup
    \/ \E c \in Chunks : ImageRead(c)
    \/ \E c \in Chunks, got \in BOOLEAN, sub \in BOOLEAN :
          ImageWrite(c, got, sub)

SpecCow == InitCow /\ [][NextCow]_vars

(***************************************************************************)
(* Properties of the data path                                             *)
(***************************************************************************)
\* C1: while the diff area is not corrupted, a read of a chunk of the image
\* returns what the chunk held when the snapshot was taken, whatever was
\* written to the original device since (a chunk the image itself wrote to
\* is left out).
ImageReadsTakeTimeData ==
    (cev.op = "image_read" /\ cev.ok /\ chunk[cev.chunk].img = 0)
        => cev.data = TakeContent(cev.chunk)

ImageReadsTakeTimeDataWitness ==
    /\ cev.op = "image_read"
    /\ cev.ok
    /\ chunk[cev.chunk].img = 0
    /\ OrigContent(cev.chunk) = NewContent

\* C2: a write bio reaches the original device only when every chunk it
\* touches has been read: none is LOADING and each is preserved in a buffer
\* or in the diff storage (the store may still be in flight), unless the
\* diff area is corrupted.
Preserved(c) ==
    /\ "LOADING" \notin chunk[c].state
    /\ chunk[c].state \cap {"BUFFER_READY", "STORING", "STORE_READY"} # {}
    /\ "BUFFER_READY" \in chunk[c].state => chunk[c].diff_buffer # FreshBuffer

OneStorePerChunk == \A c \in Chunks : chunk[c].stores <= 1

OneStorePerChunkWitness ==
    /\ cev.op = "store_done"
    /\ cev.ok
    /\ chunk[cev.chunk].img > 0
    /\ chunk[cev.chunk].stores = 1
    /\ "DIRTY" \in chunk[cev.chunk].state
    /\ "IN_CACHE" \in chunk[cev.chunk].state

\* C18: no corruption leakage.  From a state with the diff area corrupted:
\* the flag stays set; a read or write of the image fails with NO_DATA; a
\* write bio that enters the filter passes without touching any chunk, and
\* its next step is the write to the original device.
NoCorruptionLeakage ==
    [][area.corrupted
         => /\ area'.corrupted
            /\ (cev' # cev /\ cev'.op \in {"image_read", "image_write"})
                 => (~cev'.ok /\ cev'.err = "NO_DATA")
            /\ \A w \in Writers :
                 /\ (wr[w].pc = "idle" /\ wr'[w].pc # "idle")
                      => /\ wr'[w].pc = "pass"
                         /\ chunk' = chunk /\ io' = io /\ store' = store
                 /\ (wr[w].pc = "pass" /\ wr'[w] # wr[w])
                      => /\ cev'.op = "write_applied" /\ ~cev'.cow
                         /\ chunk' = chunk /\ io' = io /\ store' = store
                         /\ \A c \in Overlapped(wr[w].start, wr[w].cnt) :
                              orig'[c] = NewContent]_vars

\* A bio written to the original device after the diff area was corrupted,
\* over a chunk that was never copied.
NoCorruptionLeakageWitness ==
    /\ cev.op = "write_applied" /\ ~cev.cow
    /\ area.corrupted
    /\ \E c \in Overlapped(cev.start, cev.cnt) : chunk[c].state = {}

\* C19: a chunk that was refused a sub-extent by the exhausted diff storage
\* is FAILED and its diff area corrupted (with NO_SPACE when that was the
\* first error); once the storage ran out no extent is handed out any
\* more; and OUT_OF_SPACE was emitted exactly once if the storage ran out,
\* never otherwise.
StorageExhaustion ==
    [][/\ \A c \in Chunks :
            chunk'[c].nospace
              => /\ "FAILED" \in chunk'[c].state
                 /\ area'.corrupted
                 /\ ~area.corrupted => area'.error = "NO_SPACE"
       /\ area.overflow => (area'.overflow /\ Len(store') = Len(store))
       /\ area'.out_of_space = IF area'.overflow THEN 1 ELSE 0]_vars

\* Two chunks were refused an extent: the second request came from a copy
\* that was in flight when the storage ran out.
StorageExhaustionWitness ==
    /\ area.overflow
    /\ Cardinality({c \in Chunks : chunk[c].nospace}) >= 2

\* C20: a successful read of a chunk of the image returns what the last
\* write of the image to that chunk wrote, from wherever the chunk is
\* served.
ImageReadAfterWrite ==
    (cev.op = "image_read" /\ cev.ok /\ chunk[cev.chunk].img > 0)
        => cev.data = ImgContent(cev.chunk, chunk[cev.chunk].img)

\* The chunk was written twice through the image, evicted from the cache,
\* and the read had to fetch it from the diff storage.
ImageReadAfterWriteWitness ==
    /\ cev.op = "image_read" /\ cev.ok
    /\ chunk[cev.chunk].img = 2
    /\ cev.from = "store"

\* C30: a chunk with BUFFER_READY has a diff buffer attached and a chunk
\* with STORE_READY holds a diff-storage reservation that was not freed, in
\* every state of the data path.
ReadyFlagsHaveResources ==
    \A c \in Chunks :
        /\ "BUFFER_READY" \in chunk[c].state => chunk[c].diff_buffer # NoBuffer
        /\ "STORE_READY" \in chunk[c].state
              => chunk[c].diff_store # 0 /\ ~chunk[c].store_freed

(***************************************************************************)
(* Part III.  The CBT map (module/cbt_map.c)                               *)
(***************************************************************************)
\* A spin lock that anybody can take at any time.
SpinLockAlwaysFree == TRUE

\* spin_lock(&cbt_map->locker) can be taken.
SpinLockFree == cbt_map.locker = 0

\* big_buffer_byte_set(map, cbt_block, snap_number)
BigBufferByteSet(map, blk, num) == [map EXCEPT ![blk] = num % 256]

\* A marking that clears a cell already marked.
CbtMapSetCellOrClear(map, blk, snap_number) ==
    IF map[blk] < snap_number THEN BigBufferByteSet(map, blk, snap_number)
    ELSE [map EXCEPT ![blk] = 0]

\* One pass of the loop of _cbt_map_set() over the cell cbt_block:
\* if (num < snap_number) big_buffer_byte_set(...).
CbtMapSetCell(map, blk, snap_number) ==
    IF map[blk] < snap_number THEN BigBufferByteSet(map, blk, snap_number)
    ELSE map

\* cbt_block_last of _cbt_map_set(): (sector_start + sector_cnt - 1) in the
\* width of sector_t.
CbtBlockLast(start, cnt) == CbtBlockOf((start + cnt + WordMod - 1) % WordMod)

\* What a set call returned, and whether that was for its range (the map
\* was not corrupted on entry).
CbtSetRet(both, res, ranged) ==
    [op |-> "set_ret", both |-> both, res |-> res, ranged |-> ranged]

\* cbt_map_set() / cbt_map_set_both(): take the lock, fail on a corrupted
\* map, else enter the loop over the write map.
CbtMapSetBegin(t, start, cnt, both) ==
    /\ cbt_op[t].pc = "idle"
    /\ SpinLockFree
    /\ LET rg == [first |-> CbtBlockOf(start), last |-> CbtBlockLast(start, cnt)]
       IN  IF cbt_map.is_corrupted
           THEN /\ cbt_ev' = CbtSetRet(both, "EINVAL", FALSE)
                /\ UNCHANGED <<cbt_map, cbt_op>>
           ELSE /\ cbt_map' = [cbt_map EXCEPT !.locker = t]
                /\ cbt_op' = [cbt_op EXCEPT ![t] =
                       [pc |-> "set_write", both |-> both, first |-> rg.first,
                        last |-> rg.last, cur |-> rg.first, wm0 |-> <<>>]]
                /\ cbt_ev' = [op |-> "set_enter"]
    /\ UNCHANGED notCbt

\* One iteration of the loop of _cbt_map_set(), or the code after the loop:
\* cbt_map_set() latches is_corrupted on an error; cbt_map_set_both() runs
\* the second pass over the read map with the previous snap-number if the
\* first pass succeeded, and returns the result.
CbtMapSetStep(t) ==
    /\ cbt_op[t].pc \in {"set_write", "set_read"}
    /\ LET o == cbt_op[t]
           onWrite == o.pc = "set_write"
       IN  IF o.cur > o.last
           THEN \* loop left with res = 0
                IF onWrite /\ o.both
                THEN /\ cbt_op' = [cbt_op EXCEPT ![t].pc = "set_read",
                                                 ![t].cur = o.first]
                     /\ cbt_ev' = [op |-> "set_pass"]
                     /\ UNCHANGED cbt_map
                ELSE /\ cbt_op' = [cbt_op EXCEPT ![t] = IdleCbtOp]
                     /\ cbt_map' = [cbt_map EXCEPT !.locker = 0]
                     /\ cbt_ev' = CbtSetRet(o.both, "OK", TRUE)
           ELSE IF o.cur >= BlkCount
           THEN \* "Block index is too large": res = -EINVAL; break
                /\ cbt_op' = [cbt_op EXCEPT ![t] = IdleCbtOp]
                /\ cbt_map' = [cbt_map EXCEPT
                       !.is_corrupted = IF o.both THEN @ ELSE TRUE,
                       !.locker = 0]
                /\ cbt_ev' = CbtSetRet(o.both, "EINVAL", TRUE)
           ELSE /\ cbt_map' =
                       IF onWrite
                       THEN [cbt_map EXCEPT !.write_map =
                               CbtMapSetCell(@, o.cur, cbt_map.snap_number_active % 256)]
                       ELSE [cbt_map EXCEPT !.read_map =
                               CbtMapSetCell(@, o.cur, cbt_map.snap_number_previous % 256)]
                /\ cbt_op' = [cbt_op EXCEPT ![t].cur = o.cur + 1]
                /\ cbt_ev' = [op |-> "set_cell"]
    /\ UNCHANGED notCbt

\* An active snap-number that is never wrapped.
SnapNumberNeverOverflows(n) == FALSE

\* if (cbt_map->snap_number_active == 256)
SnapNumberOverflows(n) == n = SnapNumberLimit

\* cbt_map_switch(): take the lock and start big_buffer_memcpy(read_map,
\* write_map).
CbtMapSwitchBegin(t) ==
    /\ cbt_op[t].pc = "idle"
    /\ SpinLockFree
    /\ cbt_map.switches < MaxSwitch
    /\ cbt_map' = [cbt_map EXCEPT !.locker = t]
    /\ cbt_op' = [cbt_op EXCEPT ![t] =
           [IdleCbtOp EXCEPT !.pc = "switch", !.wm0 = cbt_map.write_map]]
    /\ cbt_ev' = [op |-> "switch_enter"]
    /\ UNCHANGED notCbt

\* The copy of one cell, or after the copy: previous = active; ++active;
\* on 256 active = 1, the write map is zeroed and a new generation id is
\* drawn; unlock.
CbtMapSwitchStep(t) ==
    /\ cbt_op[t].pc = "switch"
    /\ LET o == cbt_op[t]
       IN  IF o.cur < BlkCount
           THEN /\ cbt_map' = [cbt_map EXCEPT
                       !.read_map[o.cur] = cbt_map.write_map[o.cur]]
                /\ cbt_op' = [cbt_op EXCEPT ![t].cur = o.cur + 1]
                /\ cbt_ev' = [op |-> "switch_copy"]
           ELSE LET over == SnapNumberOverflows(cbt_map.snap_number_active + 1)
                IN  /\ cbt_map' = [cbt_map EXCEPT
                           !.snap_number_previous = cbt_map.snap_number_active,
                           !.snap_number_active =
                               IF over THEN 1 ELSE cbt_map.snap_number_active + 1,
                           !.write_map =
                               IF over THEN [i \in CbtBlocks |-> 0] ELSE @,
                           !.generation_id = IF over THEN @ + 1 ELSE @,
                           !.switches = @ + 1,
                           !.locker = 0]
                    /\ cbt_op' = [cbt_op EXCEPT ![t] = IdleCbtOp]
                    /\ cbt_ev' = [op |-> "switch_ret", over |-> over,
                                  wm0 |-> o.wm0,
                                  active0 |-> cbt_map.snap_number_active,
                                  generation0 |-> cbt_map.generation_id]
    /\ UNCHANGED notCbt

\* real_size of cbt_map_read_to_user(): min((blk_count - offset), size) in
\* the width of size_t.
CbtRealSize(offset, size) ==
    LET room == (BlkCount + WordMod - offset) % WordMod
    IN  IF room < size THEN room ELSE size

\* The byte of the read map's buffer at index i; an index past blk_count
\* is outside the map.
ReadMapByte(i) == IF i \in CbtBlocks THEN cbt_map.read_map[i] ELSE OutOfMap

\* cbt_map_read_to_user(): fails with -EFAULT (ok = FALSE) on a corrupted
\* map; else copies real_size
\* bytes starting at offset, of which `copied` reach the user buffer
\* (copy_to_user can stop early), and returns the number copied.  No lock
\* is taken.
CbtMapReadToUser(offset, size, copied) ==
    /\ copied <= CbtRealSize(offset, size)
    /\ cbt_ev' =
         IF cbt_map.is_corrupted
         THEN [op |-> "read_ret", offset |-> offset, size |-> size,
               ok |-> FALSE, ret |-> 0, bytes |-> <<>>, real_size |-> 0]
         ELSE [op |-> "read_ret", offset |-> offset, size |-> size,
               ok |-> TRUE, ret |-> copied,
               bytes |-> [k \in 1..copied |-> ReadMapByte(offset + k - 1)],
               real_size |-> CbtRealSize(offset, size)]
    /\ UNCHANGED <<cbt_map, cbt_op>>
    /\ UNCHANGED notCbt

\* cbt_map_reset(): both maps are reallocated zeroed, previous = 0,
\* active = 1, a new generation id, not corrupted.  It runs while a take
\* holds the tracker, with no other call inside the map; the allocation is
\* taken to succeed.
CbtMapReset ==
    /\ \A t \in CbtThreads : cbt_op[t].pc = "idle"
    /\ cbt_map.resets < MaxReset
    /\ cbt_map' = [CbtMapAllocate(cbt_map.generation_id + 1, 1) EXCEPT
                       !.switches = cbt_map.switches,
                       !.resets = cbt_map.resets + 1]
    /\ cbt_ev' = [op |-> "reset"]
    /\ UNCHANGED cbt_op
    /\ UNCHANGED notCbt

NextCbt ==
    \/ \E t \in CbtThreads, start \in CbtStarts, cnt \in CbtCnts, both \in BOOLEAN :
           CbtMapSetBegin(t, start, cnt, both)
    \/ \E t \in CbtThreads : CbtMapSetStep(t)
    \/ \E t \in CbtThreads : CbtMapSwitchBegin(t)
    \/ \E t \in CbtThreads : CbtMapSwitchStep(t)
    \/ \E offset \in CbtOffsets, size \in CbtSizes, copied \in CbtSizes :
           CbtMapReadToUser(offset, size, copied)
    \/ CbtMapReset

SpecCbt == InitCbt /\ [][NextCbt]_vars

(***************************************************************************)
(* Properties of the CBT map                                               *)
(***************************************************************************)
\* C11: Monotonic CBT.  In every step that is neither the end of a switch
\* nor a reset, no cell of the write map decreases, and a cell that changes
\* goes from a value below the active snap-number to the active snap-number.
MonotonicCbt ==
    [][cbt_ev'.op \notin {"switch_ret", "reset"}
         => \A i \in CbtBlocks :
              /\ cbt_map'.write_map[i] >= cbt_map.write_map[i]
              /\ cbt_map'.write_map[i] # cbt_map.write_map[i]
                   => /\ cbt_map.write_map[i] < cbt_map.snap_number_active
                      /\ cbt_map'.write_map[i] = cbt_map.snap_number_active]_vars

\* A cell marked in an earlier epoch (the read map still shows it) was
\* upgraded to the active snap-number by a set call that returned success.
MonotonicCbtWitness ==
    /\ cbt_ev.op = "set_ret" /\ cbt_ev.res = "OK"
    /\ \E i \in CbtBlocks :
         /\ cbt_map.read_map[i] > 0
         /\ cbt_map.read_map[i] < cbt_map.snap_number_active
         /\ cbt_map.write_map[i] = cbt_map.snap_number_active

\* C12: right after a switch returns, the read map equals the write map as
\* it was when the switch began, and previous equals the active snap-number
\* of before the switch; set calls of other threads cannot get in between.
SwitchCopiesWriteMap ==
    cbt_ev.op = "switch_ret"
        => /\ cbt_map.read_map = cbt_ev.wm0
           /\ cbt_map.snap_number_previous = cbt_ev.active0

\* The overflowing switch copied a map with marked cells.
SwitchCopiesWriteMapWitness ==
    /\ cbt_ev.op = "switch_ret" /\ cbt_ev.over
    /\ \E i \in CbtBlocks : cbt_map.read_map[i] = cbt_ev.active0

\* C13: after the first switch, write_map[i] >= read_map[i] for every block.
WriteMapCoversReadMap ==
    cbt_map.switches >= 1
        => \A i \in CbtBlocks : cbt_map.write_map[i] >= cbt_map.read_map[i]

\* C14: the switch at active = 255 leaves active = 1, previous = 255, the
\* write map zero and a different generation id; the active snap-number is
\* always in 1..255 and every cell fits in a byte.
OverflowSwitch ==
    /\ (cbt_ev.op = "switch_ret" /\ cbt_ev.active0 = SnapNumberLimit - 1)
         => /\ cbt_map.snap_number_active = 1
            /\ cbt_map.snap_number_previous = SnapNumberLimit - 1
            /\ \A i \in CbtBlocks : cbt_map.write_map[i] = 0
            /\ cbt_map.generation_id # cbt_ev.generation0
    /\ cbt_map.snap_number_active \in 1..(SnapNumberLimit - 1)
    /\ \A i \in CbtBlocks : /\ cbt_map.write_map[i] \in 0..255
                            /\ cbt_map.read_map[i] \in 0..255

\* The switch at 255 returned, and the write map it reset had marked cells.
OverflowSwitchWitness ==
    /\ cbt_ev.op = "switch_ret" /\ cbt_ev.active0 = SnapNumberLimit - 1
    /\ \E i \in CbtBlocks : cbt_ev.wm0[i] = SnapNumberLimit - 1

\* C15: a set or set_both call that fails for its range leaves the map
\* corrupted.
OutOfRangeLatchesCorrupted ==
    (cbt_ev.op = "set_ret" /\ cbt_ev.res = "EINVAL" /\ cbt_ev.ranged)
        => cbt_map.is_corrupted

\* C16: on a map that is not corrupted read_to_user returns the number of
\* bytes it copied, asks for the window clipped at blk_count, and every
\* byte copied is the byte of the read map at its index.
ReadToUserRoundTrip ==
    (cbt_ev.op = "read_ret" /\ cbt_ev.ok)
        => LET room == IF cbt_ev.offset >= BlkCount THEN 0
                       ELSE BlkCount - cbt_ev.offset
               clipped == IF room < cbt_ev.size THEN room ELSE cbt_ev.size
           IN  /\ cbt_ev.ret = Len(cbt_ev.bytes)
               /\ cbt_ev.real_size = clipped
               /\ \A k \in 1..Len(cbt_ev.bytes) :
                    /\ cbt_ev.offset + k - 1 \in CbtBlocks
                    /\ cbt_ev.bytes[k] = cbt_map.read_map[cbt_ev.offset + k - 1]

(***************************************************************************)
(* Part IV.  The tracker registry (module/tracker.c)                       *)
(*                                                                         *)
(* tracking_add and tracking_remove are translated from tracker.c, where   *)
(* both end with list_add_tail(&trackers, tracker): the call is read as    *)
(* linking the tracker's entry at the tail of `trackers`.  A tracker is    *)
(* captured by the take of its snapshot (_tracker_capture_snapshot) only   *)
(* when it was added for a snapshot; tracker_release_snapshot is the loop  *)
(* body of tracker.c:492-511 for one device.                               *)
(***************************************************************************)
\* list_for_each_entry(tracker, &trackers, link) of tracker_get_by_dev_id():
\* the trackers read up to the first one whose dev_id is d.
RECURSIVE TrackerWalk(_, _, _)
TrackerWalk(n, d, fuel) ==
    IF n = HEAD \/ fuel = 0 THEN <<>>
    ELSE IF n = d THEN <<n>>
    ELSE <<n>> \o TrackerWalk(trackers.next[n], d, fuel - 1)

\* tracker_get_by_dev_id(): the tracker found (0: -ENODATA), and whether the
\* walk read a tracker that was freed.
TrackerGetByDevId(d) ==
    LET w == TrackerWalk(trackers.next[HEAD], d, NDev + 1)
    IN  [found |-> IF w # <<>> /\ w[Len(w)] = d THEN d ELSE 0,
         freed |-> \E i \in DOMAIN w : trk[w[i]].st = "freed"]

\* The trackers linked in the list.
TrackersLinked == Range(Walk(trackers.next, trackers.next[HEAD], NDev + 1))

\* tracking_remove(): if (tracker->snapshot_id != 0ull) ret = -EBUSY.
TrackerHasSnapshot(t) == t.snapshot_id # 0

\* The walk of a tracking call read freed memory.  What it read is whatever
\* the allocator left there: the old content (stale: the tracker is found
\* as if it were alive) or anything else; the call is not followed further.
TrackingUseAfterFree(op, d, stale) ==
    /\ trk_oops' = TRUE
    /\ trk_ev' = [op |-> op, dev |-> d, removed |-> trk[d].st = "freed",
                  found |-> IF stale THEN TrackerGetByDevId(d).found ELSE 0,
                  ret |-> "use_after_free"]
    /\ UNCHANGED <<trackers, trk>>

TrkEvent(op, d, ret) ==
    [op |-> op, dev |-> d, removed |-> trk[d].st = "freed",
     found |-> TrackerGetByDevId(d).found, ret |-> ret]

\* tracking_add(dev_id, snapshot_id).  new_ok, att_ok: tracker_new and
\* tracker_attach succeed.
TrackingAdd(d, sid, new_ok, att_ok, stale) ==
    /\ ~trk_oops
    /\ LET g == TrackerGetByDevId(d) IN
       IF g.freed THEN TrackingUseAfterFree("add", d, stale)
       ELSE IF g.found # 0 THEN
            \* _add_already_tracked(), then -EALREADY and tracker_put
            /\ trk' = [trk EXCEPT ![d].snapshot_id =
                          IF sid # 0 /\ @ = 0 THEN sid ELSE @]
            /\ trk_ev' = TrkEvent("add", d, "EALREADY")
            /\ UNCHANGED <<trackers, trk_oops>>
       ELSE IF ~new_ok THEN
            /\ trk_ev' = TrkEvent("add", d, "ENOMEM")
            /\ UNCHANGED <<trackers, trk, trk_oops>>
       ELSE IF ~att_ok THEN
            \* tracker_put of the only reference: the tracker is freed
            \* before it was linked
            /\ trk_ev' = TrkEvent("add", d, "EATTACH")
            /\ UNCHANGED <<trackers, trk, trk_oops>>
       ELSE /\ trk' = [trk EXCEPT ![d] =
                          [st |-> "live", refcount |-> 1, snapshot_id |-> sid,
                           is_captured |-> FALSE, attached |-> TRUE]]
            /\ trackers' = ListAddTail(d, HEAD, trackers.next, trackers.prev)
            /\ trk_ev' = TrkEvent("add", d, "OK")
            /\ UNCHANGED trk_oops
    /\ UNCHANGED notTrk

\* tracking_remove(dev_id).  det_ok: tracker_detach succeeds.
TrackingRemove(d, det_ok, stale) ==
    /\ ~trk_oops
    /\ LET g == TrackerGetByDevId(d) IN
       IF g.freed THEN TrackingUseAfterFree("remove", d, stale)
       ELSE IF g.found = 0 THEN
            /\ trk_ev' = TrkEvent("remove", d, "ENODATA")
            /\ UNCHANGED <<trackers, trk, trk_oops>>
       ELSE IF TrackerHasSnapshot(trk[d]) THEN
            \* tracker_get_by_dev_id took a reference, out: puts it
            /\ trk_ev' = TrkEvent("remove", d, "EBUSY")
            /\ UNCHANGED <<trackers, trk, trk_oops>>
       ELSE \* tracker_detach; list_add_tail (tracker.c:711); tracker_put for
            \* the list and, at out:, for the lookup: of the two references
            \* held here one is left, and the tracker is freed at zero
            /\ trackers' = ListAddTail(d, HEAD, trackers.next, trackers.prev)
            /\ trk' = [trk EXCEPT ![d].attached = @ /\ ~det_ok,
                                  ![d].refcount = @ - 1,
                                  ![d].st = IF trk[d].refcount = 1 THEN "freed"
                                            ELSE @]
            /\ trk_ev' = TrkEvent("remove", d, IF det_ok THEN "OK" ELSE "EDETACH")
            /\ UNCHANGED trk_oops
    /\ UNCHANGED notTrk

\* _tracker_capture_snapshot() for a tracker of the snapshot being taken.
TrackerCaptureSnapshot(d) ==
    /\ ~trk_oops
    /\ trk[d].st = "live" /\ trk[d].snapshot_id # 0 /\ ~trk[d].is_captured
    /\ trk' = [trk EXCEPT ![d].is_captured = TRUE]
    /\ trk_ev' = TrkEvent("capture", d, "OK")
    /\ UNCHANGED <<trackers, trk_oops>>
    /\ UNCHANGED notTrk

\* tracker_release_snapshot() for one device: the reference the lookup took
\* is kept.
TrackingReleaseSnapshot(d, stale) ==
    /\ ~trk_oops
    /\ trk[d].refcount < MaxTrkRef
    /\ LET g == TrackerGetByDevId(d) IN
       IF g.freed THEN TrackingUseAfterFree("release", d, stale)
       ELSE IF g.found = 0 THEN
            /\ trk_ev' = TrkEvent("release", d, "ENODATA")
            /\ UNCHANGED <<trackers, trk, trk_oops>>
       ELSE /\ trk' = [trk EXCEPT ![d].is_captured = FALSE,
                                  ![d].refcount = @ + 1]
            /\ trk_ev' = TrkEvent("release", d, "OK")
            /\ UNCHANGED <<trackers, trk_oops>>
    /\ UNCHANGED notTrk

NextTracking ==
    \E d \in Devs :
        \/ \E sid \in 0..MaxSnapId, new_ok, att_ok, stale \in BOOLEAN :
               TrackingAdd(d, sid, new_ok, att_ok, stale)
        \/ \E det_ok, stale \in BOOLEAN : TrackingRemove(d, det_ok, stale)
        \/ TrackerCaptureSnapshot(d)
        \/ \E stale \in BOOLEAN : TrackingReleaseSnapshot(d, stale)

SpecTracking == InitSnapshot /\ [][NextTracking]_vars

\* C21: tracking_remove of a device whose tracker is captured by a taken
\* snapshot returns -EBUSY and leaves the tracker, its filter attachment and
\* the list of trackers as they were.
RemoveCapturedIsBusy ==
    [][\A d \in Devs :
          (/\ trk_ev'.op = "remove" /\ trk_ev'.dev = d
           /\ trk[d].st = "live" /\ trk[d].is_captured
           /\ trk_ev' # trk_ev)
          => /\ trk_ev'.ret = "EBUSY"
             /\ trk' = trk
             /\ trackers' = trackers]_vars

\* C22: a tracker is in the registry from its add to its remove: a lookup
\* finds a device that was added and not removed, an add of a tracked device
\* is reported as already tracked and links nothing, and after a successful
\* remove no lookup finds the device and its tracker is not in the list.
TrackerExistsFromAddToRemove ==
    /\ \A d \in Devs : trk[d].st = "live" => d \in TrackersLinked
    /\ (trk_ev.op = "add" /\ trk_ev.found # 0) => trk_ev.ret # "OK"
    /\ (trk_ev.op = "remove" /\ trk_ev.ret = "OK")
           => trk_ev.dev \notin TrackersLinked
    /\ (trk_ev.op # "none" /\ trk_ev.removed)
           => trk_ev.found = 0 /\ trk_ev.ret # "use_after_free"

(***************************************************************************)
(* Part V.  The event queue of a snapshot (module/event_queue.c)           *)
(*                                                                         *)
(* event_wait() evaluates !list_empty() inside                             *)
(* wait_event_interruptible_timeout() without the queue's lock and takes   *)
(* the first entry under the lock afterwards: the two are separate steps   *)
(* of a waiter.                                                            *)
(***************************************************************************)
\* event_gen().  ok: kzalloc returned an event.
EventGen(ok) ==
    /\ ~event_queue.poisoned
    /\ event_queue.generated < MaxEvent
    /\ IF ok
       THEN /\ event_queue' = [event_queue EXCEPT
                                  !.list = Append(@, event_queue.generated + 1),
                                  !.generated = @ + 1]
            /\ evq_ev' = [op |-> "gen", ret |-> "OK", w |-> 0,
                          event |-> event_queue.generated + 1]
       ELSE /\ evq_ev' = [op |-> "gen", ret |-> "ENOMEM", w |-> 0, event |-> 0]
            /\ UNCHANGED event_queue
    /\ UNCHANGED waiter
    /\ UNCHANGED notEvq

\* event_wait(), wait_event_interruptible_timeout(): with the list not empty
\* the wait ends with ret > 0; with the list empty it ends when the timeout
\* elapsed (-ENOENT) or a signal arrived (-EINTR).
EventWaitCheck(w, signal) ==
    /\ ~event_queue.poisoned
    /\ waiter[w] = "idle"
    /\ IF event_queue.list # <<>>
       THEN /\ waiter' = [waiter EXCEPT ![w] = "woken"]
            /\ evq_ev' = [op |-> "woken", ret |-> "OK", w |-> w, event |-> 0]
       ELSE /\ evq_ev' = [op |-> "wait", w |-> w, event |-> 0,
                          ret |-> IF signal THEN "EINTR" ELSE "ENOENT"]
            /\ UNCHANGED waiter
    /\ UNCHANGED event_queue
    /\ UNCHANGED notEvq

\* event_wait(), ret > 0: list_first_entry and list_del under the lock.  On
\* an empty list list_first_entry yields the list head taken as an event
\* (event 0 here) and list_del poisons the head.
EventWaitTake(w) ==
    /\ ~event_queue.poisoned
    /\ waiter[w] = "woken"
    /\ waiter' = [waiter EXCEPT ![w] = "idle"]
    /\ IF event_queue.list # <<>>
       THEN /\ event_queue' = [event_queue EXCEPT
                                  !.list = Tail(@),
                                  !.delivered = Append(@, Head(event_queue.list))]
            /\ evq_ev' = [op |-> "wait", ret |-> "OK", w |-> w,
                          event |-> Head(event_queue.list)]
       ELSE /\ event_queue' = [event_queue EXCEPT
                                  !.poisoned = TRUE,
                                  !.delivered = Append(@, 0)]
            /\ evq_ev' = [op |-> "wait", ret |-> "OK", w |-> w, event |-> 0]
    /\ UNCHANGED notEvq

NextEvent ==
    \/ \E ok \in BOOLEAN : EventGen(ok)
    \/ \E w \in Waiters, signal \in BOOLEAN : EventWaitCheck(w, signal)
    \/ \E w \in Waiters : EventWaitTake(w)

SpecEvent == InitSnapshot /\ [][NextEvent]_vars

\* C23: the events event_wait returned are the generated events, each once
\* and in the order of their generation, whatever the number of waiters; a
\* wait that reports a timeout or a signal found the list empty and the
\* queue stays a list of the events not yet delivered.
EventsDeliveredInOrderOnce ==
    /\ \A i \in DOMAIN event_queue.delivered : event_queue.delivered[i] = i
    /\ ~event_queue.poisoned
    /\ Len(event_queue.delivered) + Len(event_queue.list) = event_queue.generated
    /\ (evq_ev.op = "wait" /\ evq_ev.ret = "OK") => evq_ev.event \in 1..MaxEvent

(***************************************************************************)
(* Part VI.  Two control threads (module/snapshot.c)                       *)
(*                                                                         *)
(* The calls of Part I from two threads at once, every allocation          *)
(* succeeding.  A take fails here only at its corruption check, after a    *)
(* write bio whose copy failed; that bio passes its pipeline in one step.  *)
(***************************************************************************)
\* Steps 1 to 6 of the pipeline for a write bio on a taken tracker whose
\* diff_area.copy() fails: CBT set, then the corruption is latched.
BioCopyFails(d) ==
    /\ ~oops
    /\ tracker[d].exists /\ ~SubmitLockContended(d)
    /\ tracker[d].snapshot_is_taken
    /\ tracker[d].diff_area # 0
    /\ ~diff_area[tracker[d].diff_area].corrupted
    /\ diff_area' = [diff_area EXCEPT ![tracker[d].diff_area].corrupted = TRUE]
    /\ tracker' = [tracker EXCEPT ![d].cbt_dirty = TRUE]
    /\ ev' = [op |-> "bio_cow", bio |-> 0, dev |-> d,
              da |-> tracker[d].diff_area, by |-> tracker[d].taken_by]
    /\ UNCHANGED <<link_next, link_prev, snapshot, snapimage, ctl, bio, oops>>
    /\ UNCHANGED notSnap

NextControl ==
    \/ \E c \in Callers, s \in Snaps, devs \in {q \in DevLists : Len(q) = NDev} :
          SnapshotCreate(c, s, devs, 0)
    \/ \E c \in Callers, s \in Snaps : SnapshotDestroy(c, s)
    \/ \E c \in Callers : SnapshotPut(c)
    \/ \E c \in Callers : ReleaseLock(c)
    \/ \E c \in Callers : ReleaseTrackers(c)
    \/ \E c \in Callers : ReleaseDetach(c)
    \/ \E c \in Callers, s \in Snaps :
          TakeBegin(c, s, 0) /\ Len(diff_area') <= MaxDaControl
    \/ \E c \in Callers : TakeLock(c)
    \/ \E c \in Callers : TakeTrackers(c, 0)
    \/ \E c \in Callers : TakeUnlock(c)
    \/ \E c \in Callers : TakePost(c, 0)
    \/ \E c \in Callers : TakeFail(c)
    \/ \E d \in Devs : BioCopyFails(d)

SpecControl == InitSnapshot /\ [][NextControl]_vars

\* C24: no two control threads wait for each other's submit locks: a thread
\* inside the lock loop of a take or of a release never waits for a tracker
\* held by a thread that waits for a tracker the first one holds.
NoSubmitLockCycle ==
    LET arr(c) == snapshot[ctl[c].snap].tracker_array
        wanted(c) == IF ctl[c].pc \in {"lock", "rel_lock"}
                     THEN arr(c)[ctl[c].inx] ELSE 0
        held(c) == IF ctl[c].pc \in {"lock", "rel_lock"}
                   THEN {arr(c)[j] : j \in 1..(ctl[c].inx - 1)} \ {0}
                   ELSE IF ctl[c].pc \in {"take", "unlock", "rel_trackers"}
                   THEN Range(arr(c)) \ {0}
                   ELSE {}
    IN  \A c1, c2 \in Callers :
           c1 # c2 => ~(wanted(c1) \in held(c2) /\ wanted(c2) \in held(c1))

\* C26: a taken snapshot that was unlinked from the registry, by destroy or
\* by the fail path of its take, is released: no thread that works on it
\* stops at a poisoned link or a freed snapshot before the release ran.
TakenSnapshotIsReleased ==
    \A s \in Snaps :
        (snapshot[s].st = "live" /\ snapshot[s].is_taken /\ link_next[s] = POISON)
            => ~oops

\* C36: of two snapshot_take calls on one snapshot at most one is past the
\* is_taken check at a time and the trackers are captured for a snapshot
\* only while it is not taken; a take that finds the snapshot taken returns
\* EALREADY and changes no tracker, diff area or image.
TakeIsExclusive ==
    /\ [](\A c1, c2 \in Callers :
            (/\ c1 # c2
             /\ ctl[c1].op = "take" /\ ctl[c2].op = "take"
             /\ ctl[c1].snap = ctl[c2].snap)
               => \/ ctl[c1].pc = "put" /\ ctl[c1].ret = "EALREADY"
                  \/ ctl[c2].pc = "put" /\ ctl[c2].ret = "EALREADY")
    /\ [][/\ (ev'.op = "tracker_take" /\ ev'.failed = 0)
                => ~snapshot[ev'.snap].is_taken
          /\ \A c \in Callers, s \in Snaps :
               (/\ ctl[c].pc = "idle" /\ ctl'[c].op = "take"
                /\ ctl'[c].snap = s /\ SnapshotFound(s)
                /\ snapshot[s].is_taken)
                  => /\ ctl'[c].ret = "EALREADY"
                     /\ UNCHANGED <<tracker, diff_area, snapimage>>
                     /\ snapshot'[s].is_taken]_vars

\* C37: while snapshot A holds a tracker taken, no step of a snapshot_take
\* on another snapshot changes who holds the tracker or its diff area; two
\* taken snapshots share no tracker; and the diff area of a tracker held by
\* A is A's, the one the image of A on that device reads from.
TrackerTakenByOne ==
    /\ [](\A a, b \in Snaps :
            (a # b /\ snapshot[a].st = "live" /\ snapshot[b].st = "live"
               /\ snapshot[a].is_taken /\ snapshot[b].is_taken)
               => TrackersOf(a) \cap TrackersOf(b) = {})
    /\ [][\A d \in Devs :
            (/\ tracker[d].snapshot_is_taken
             /\ tracker[d].taken_by # 0
             /\ ev'.op \in {"take_begin", "tracker_take"}
             /\ ev'.snap # tracker[d].taken_by)
               => /\ tracker'[d].snapshot_is_taken
                  /\ tracker'[d].taken_by = tracker[d].taken_by
                  /\ tracker'[d].diff_area = tracker[d].diff_area]_vars

(***************************************************************************)
(* Part VII.  The registry seen from outside (module/snapshot.c):          *)
(* snapshot_collect() and snapshot_mark_dirty_blocks() between the calls   *)
(* of one control thread, every allocation of which may fail.  An image    *)
(* device id is the number of the image.                                   *)
(***************************************************************************)
\* snapshot_collect(pcount, id_array).  has_array: id_array is not NULL;
\* fault: uuid_copy_to_user fails.
SnapshotCollect(c, pcount, has_array, fault) ==
    /\ ~oops
    /\ ctl[c].pc = "idle"
    /\ LET e == ListEntries(link_next)
           inx == IF ~has_array THEN Len(e)
                  ELSE IF e # <<>> /\ pcount > 0 /\ fault THEN 0
                  ELSE IF Len(e) > pcount THEN pcount ELSE Len(e)
       IN  ev' = [op |-> "collect_ret", array |-> has_array, count |-> inx,
                  ids |-> IF has_array THEN SubSeq(e, 1, inx) ELSE <<>>,
                  ret |-> IF ~has_array \/ e = <<>> THEN "OK"
                          ELSE IF pcount = 0 THEN "ENODATA"
                          ELSE IF fault THEN "EFAULT"
                          ELSE IF Len(e) > pcount THEN "ENODATA" ELSE "OK"]
    /\ UNCHANGED <<link_next, link_prev, snapshot, tracker, diff_area,
                   snapimage, ctl, bio, oops>>
    /\ UNCHANGED notSnap

\* snapshot_mark_dirty_blocks(image_dev_id, block_ranges, count) with ranges
\* inside the map: every snapimage_array entry of every listed snapshot is
\* dereferenced; the map of the last match is marked.
SnapshotMarkDirtyBlocks(c, img) ==
    /\ ~oops
    /\ ctl[c].pc = "idle"
    /\ LET e == ListEntries(link_next)
           arrays == {snapshot[e[i]].snapimage_array : i \in DOMAIN e}
           images == UNION {{a[j] : j \in DOMAIN a} : a \in arrays}
           r == [img |-> img,
                 known |-> img \in DOMAIN snapimage /\ snapimage[img].st = "live",
                 before |-> [d \in Devs |-> tracker[d].cbt_dirty]]
       IN  IF e = <<>>
           THEN /\ ev' = [op |-> "mark_ret", ret |-> "OK"] @@ r
                /\ UNCHANGED <<tracker, oops>>
           ELSE IF 0 \in images
           THEN /\ oops' = TRUE
                /\ ev' = [op |-> "mark_oops", ret |-> "oops"] @@ r
                /\ UNCHANGED tracker
           ELSE IF img \notin images
           THEN /\ ev' = [op |-> "mark_ret", ret |-> "ENODEV"] @@ r
                /\ UNCHANGED <<tracker, oops>>
           ELSE /\ tracker' = [tracker EXCEPT ![snapimage[img].dev].cbt_dirty = TRUE]
                /\ ev' = [op |-> "mark_ret", ret |-> "OK"] @@ r
                /\ UNCHANGED oops
    /\ UNCHANGED <<link_next, link_prev, snapshot, diff_area, snapimage, ctl, bio>>
    /\ UNCHANGED notSnap

NextRegistry ==
    \E c \in SoloCaller :
        \/ \E s \in Snaps, devs \in DevLists, k \in 0..NDev :
              SnapshotCreate(c, s, devs, k)
        \/ \E s \in Snaps : SnapshotDestroy(c, s)
        \/ SnapshotPut(c)
        \/ ReleaseLock(c)
        \/ ReleaseTrackers(c)
        \/ ReleaseDetach(c)
        \/ \E s \in Snaps, k \in 0..NDev :
              TakeBegin(c, s, k) /\ Len(diff_area') <= MaxDa
        \/ TakeLock(c)
        \/ \E k \in 0..NDev : TakeTrackers(c, k)
        \/ TakeUnlock(c)
        \/ \E k \in 0..NDev : TakePost(c, k)
        \/ TakeFail(c)
        \/ \E pcount \in {0, NSnap}, has_array, fault \in BOOLEAN :
              SnapshotCollect(c, pcount, has_array, fault)
        \/ \E img \in 1..(MaxImg + 1) : SnapshotMarkDirtyBlocks(c, img)

SpecRegistry == InitSnapshot /\ [][NextRegistry]_vars

\* C25: every snapshot that was created and not unlinked by a destroy or by
\* a failed take is found by the walk of the registry, and a successful
\* snapshot_collect lists exactly these snapshots.
RegistryHoldsCreatedSnapshots ==
    LET created == {s \in Snaps : snapshot[s].st = "live"
                                     /\ link_next[s] # POISON}
    IN  /\ \A s \in created : SnapshotFound(s)
        /\ (ev.op = "collect_ret" /\ ev.array /\ ev.ret = "OK")
              => Range(ev.ids) = created
        /\ (ev.op = "collect_ret" /\ ~ev.array) => ev.count = Cardinality(created)

\* C27: snapshot_mark_dirty_blocks for an id that is no live image's returns
\* the not-found error and leaves every CBT map as it was; for the id of a
\* live image it returns 0 and the map of the image's device is marked.
MarkDirtyBlocksFindsImage ==
    ev.op \in {"mark_ret", "mark_oops"} =>
        IF ev.known
        THEN ev.ret = "OK" /\ tracker[snapimage[ev.img].dev].cbt_dirty
        ELSE /\ ev.ret = "ENODEV"
             /\ \A d \in Devs : tracker[d].cbt_dirty = ev.before[d]

(***************************************************************************)
(* Part VIII.  Two write bios on the original device at once               *)
(* (module/tracker.c, module/chunk.c): the copy-on-write of Part II        *)
(* without image I/O.                                                      *)
(***************************************************************************)
NextCowRace ==
    \/ \E w \in Writers, start \in Sectors, cnt \in 1..MaxCnt :
          WriteBegin(w, start, cnt)
    \/ \E w \in Writers, ok \in BOOLEAN : CopyChunk(w, ok)
    \/ \E w \in Writers : WriteApply(w)
    \/ \E c \in Chunks, ok \in BOOLEAN, got \in BOOLEAN, sub \in BOOLEAN :
          LoadDone(c, ok, got, sub)
    \/ \E c \in Chunks, ok \in BOOLEAN : StoreDone(c, ok)
    \/ CacheCleanup

SpecCowRace == InitCow /\ [][NextCowRace]_vars

\* C28: a read of the original is started for a chunk only when the chunk
\* is new and none of its I/O is in flight, its store is started only by
\* the completion of that read, and a chunk never becomes new again: every
\* chunk is loaded and stored at most once, whatever copies overlap it.
SingleCowPerChunk ==
    [][\A c \in Chunks :
          LET inflight(q) == {r \in q : r.chunk = c}
              set == chunk'[c].state \ chunk[c].state
          IN  /\ "LOADING" \in set => chunk[c].state = {} /\ inflight(io) = {}
              /\ "STORING" \in set
                    => "LOADING" \in chunk[c].state /\ inflight(io') \subseteq
                           {[chunk |-> c, write |-> TRUE]}
              /\ chunk[c].state # {} => chunk'[c].state # {}
              /\ Cardinality(inflight(io')) <= 1
              /\ chunk'[c].stores <= 1]_vars

\* Two write bios overlapped the same chunk and both finished their copy;
\* the chunk was loaded and stored.
SingleCowPerChunkWitness ==
    \E c \in Chunks :
        /\ "STORE_READY" \in chunk[c].state
        /\ chunk[c].stores = 1
        /\ \A w \in Writers :
              /\ wr[w].pc = "wait"
              /\ c \in BlkStart(wr[w].start, wr[w].cnt)..BlkLast(wr[w].start, wr[w].cnt)

\* C29: LOADING and STORING are never set together; a step changes the
\* flags of a chunk only along new -> LOADING -> BUFFER_READY (-> STORING ->
\* STORE_READY and IN_CACHE when the diff area is not kept in memory), by
\* setting FAILED, or by the eviction of its buffer; and chunk_notify_load
\* (chunk_notify_store) called without an error on a chunk that is not
\* LOADING (STORING) leaves every flag as it is, whatever the flags are.
CowStateMachine ==
    /\ [](\A c \in Chunks : ~({"LOADING", "STORING"} \subseteq chunk[c].state))
    /\ [][\A c \in Chunks :
            LET st == chunk[c].state
                st2 == chunk'[c].state
            IN  st2 # st =>
                  \/ "FAILED" \in st2 \ st
                  \/ st = {} /\ st2 = {"LOADING"}
                  \/ st = {"LOADING"} /\ st2 = {"BUFFER_READY", "STORING"}
                  \/ st = {"LOADING"} /\ st2 = {"BUFFER_READY"} /\ area.in_memory
                  \/ /\ st = {"BUFFER_READY", "STORING"}
                     /\ st2 = {"BUFFER_READY", "STORE_READY", "IN_CACHE"}
                  \/ /\ cev'.op = "evict"
                     /\ st2 = st \ {"BUFFER_READY", "IN_CACHE"}]_vars
    /\ [](cev = NoCev =>
            \A c \in Chunks :
            \A st \in SUBSET {"LOADING", "BUFFER_READY", "STORING", "STORE_READY",
                              "IN_CACHE", "DIRTY", "FAILED"} :
               LET S == [Cur EXCEPT !.chunk[c].state = st, !.chunk[c].error = FALSE]
               IN  /\ "LOADING" \notin st
                      => ChunkNotifyLoad(S, c, TRUE, TRUE).chunk[c].state = st
                   /\ "STORING" \notin st
                      => ChunkNotifyStore(S, c).chunk[c].state = st)

\* The store of a chunk completed: the chunk went through the whole chain.
CowStateMachineWitness ==
    /\ cev.op = "store_done" /\ cev.ok
    /\ chunk[cev.chunk].state = {"BUFFER_READY", "STORE_READY", "IN_CACHE"}
    /\ ~chunk[cev.chunk].lock

(***************************************************************************)
(* Further properties of the data path (SpecCow)                           *)
(***************************************************************************)
\* C31: a chunk with an I/O error or a refused extent is FAILED, a FAILED
\* chunk means a corrupted diff area, and a completion leaves its chunk
\* either with the next I/O of the chain submitted, unlocked, or FAILED; the
\* diff area stays corrupted with the error it got first; a FAILED chunk
\* stays FAILED, has no buffer, and no load or store is started for it.
FailedIsTerminal ==
    /\ [](\A c \in Chunks :
            /\ (chunk[c].error \/ chunk[c].nospace) => "FAILED" \in chunk[c].state
            /\ "FAILED" \in chunk[c].state
                  => area.corrupted /\ chunk[c].diff_buffer = NoBuffer)
    /\ [][/\ area.corrupted => area'.corrupted /\ area'.error = area.error
          /\ \A c \in Chunks :
               /\ (cev'.op \in {"load_done", "store_done"} /\ cev'.chunk = c)
                     => \/ "FAILED" \in chunk'[c].state
                        \/ ~chunk'[c].lock
                        \/ [chunk |-> c, write |-> TRUE] \in io'
               /\ "FAILED" \in chunk[c].state
                     => /\ "FAILED" \in chunk'[c].state
                        /\ chunk'[c].state \subseteq chunk[c].state
                        /\ {r \in io' : r.chunk = c} \subseteq io
                        /\ chunk'[c].stores = chunk[c].stores]_vars

\* One chunk failed with an I/O error and another for a different reason:
\* the diff area was latched twice.
FailedIsTerminalWitness ==
    /\ area.corrupted
    /\ \E c1, c2 \in Chunks :
          /\ c1 # c2
          /\ "FAILED" \in chunk[c1].state /\ chunk[c1].error
          /\ "FAILED" \in chunk[c2].state /\ ~chunk[c2].error

\* The data path with its scheduling: a queued cache worker runs, and the
\* block layer completes every chunk I/O it was given.
SpecCowFair ==
    /\ SpecCow
    /\ WF_vars(CacheCleanup)
    /\ \A c \in Chunks :
          /\ WF_vars(\E ok \in BOOLEAN, got \in BOOLEAN, sub \in BOOLEAN :
                        LoadDone(c, ok, got, sub))
          /\ WF_vars(\E ok \in BOOLEAN : StoreDone(c, ok))

ChunkLockReleased ==
    /\ [](\A c \in Chunks : chunk[c].lock => \E r \in io : r.chunk = c)
    /\ [][\A c \in Chunks :
            /\ (cev'.op \in {"load_done", "store_done"} /\ cev'.chunk = c)
                  => /\ chunk[c].lock
                     /\ chunk'[c].lock =>
                          /\ cev'.op = "load_done"
                          /\ "STORING" \in chunk'[c].state
                          /\ "FAILED" \notin chunk'[c].state
            /\ (chunk[c].lock /\ ~chunk'[c].lock)
                  => cev'.op \in {"load_done", "store_done"} /\ cev'.chunk = c
            /\ (~chunk[c].lock /\ chunk'[c].lock)
                  => cev'.op \in {"copy_load", "image_write"} /\ cev'.chunk = c]_vars
    /\ \A c \in Chunks : []<>(~chunk[c].lock)

\* Every way out happened: one chunk gave its lock up when it failed, the
\* other when it was handed to the cache, and nothing is in flight.
ChunkLockReleasedWitness ==
    /\ io = {}
    /\ \E c1, c2 \in Chunks :
          /\ ~chunk[c1].lock /\ "FAILED" \in chunk[c1].state
          /\ chunk[c1].stores = 0
          /\ ~chunk[c2].lock /\ "FAILED" \notin chunk[c2].state
          /\ "IN_CACHE" \in chunk[c2].state /\ cev = [op |-> "store_done", chunk |-> c2, ok |-> TRUE]

(***************************************************************************)
(* Part IX.  The end of a diff area: chunk_free                            *)
(***************************************************************************)
\* chunk_free(): under the chunk lock the buffer is released, the store is
\* kfree()d and FAILED is set; then the chunk is kfree()d.  The chunk is not
\* taken off caching_chunks and caching_chunks_count is not changed.
ChunkFree(c) ==
    /\ ~chunk[c].freed
    /\ ~chunk[c].lock
    /\ chunk' = [chunk EXCEPT ![c].diff_buffer = NoBuffer,
                              ![c].store_freed = @ \/ chunk[c].diff_store # 0,
                              ![c].state = @ \cup {"FAILED"},
                              ![c].freed = TRUE]
    /\ cev' = [op |-> "chunk_free", chunk |-> c,
               again |-> chunk[c].store_freed /\ chunk[c].diff_store # 0]
    /\ UNCHANGED <<orig, area, store, io, wr>>
    /\ UNCHANGED notCow

\* The data path of one diff area up to its end: the chunks are freed once
\* no bio and no chunk I/O is in flight, and nothing else runs from then on.
NextCowFree ==
    \/ /\ \A c \in Chunks : ~chunk[c].freed
       /\ \/ \E w \in SoloWriter, start \in Sectors, cnt \in 1..MaxCnt :
                WriteBegin(w, start, cnt)
          \/ \E w \in SoloWriter, ok \in BOOLEAN : CopyChunk(w, ok)
          \/ \E w \in SoloWriter : WriteApply(w)
          \/ \E c \in Chunks, ok \in BOOLEAN, got \in BOOLEAN, sub \in BOOLEAN :
                LoadDone(c, ok, got, sub)
          \/ \E c \in Chunks, ok \in BOOLEAN : StoreDone(c, ok)
          \/ CacheCleanup
          \/ \E c \in Chunks : ImageRead(c)
          \/ \E c \in Chunks, got \in BOOLEAN, sub \in BOOLEAN :
                ImageWrite(c, got, sub)
    \/ /\ io = {}
       /\ \A w \in Writers : wr[w].pc = "idle"
       /\ \E c \in Chunks : ChunkFree(c)

SpecCowFree == InitCow /\ [][NextCowFree]_vars

\* C33: caching_chunks_count is the length of caching_chunks, no chunk is
\* linked twice, and the chunks linked are the chunks that exist and have
\* IN_CACHE set.
CacheCountMatchesList ==
    LET l == area.caching_chunks
    IN  /\ area.caching_chunks_count = Len(l)
        /\ \A i, j \in 1..Len(l) : l[i] = l[j] => i = j
        /\ \A c \in Chunks :
              (\E i \in 1..Len(l) : l[i] = c)
                 <=> ("IN_CACHE" \in chunk[c].state /\ ~chunk[c].freed)

\* C35: no step releases the diff-storage reservation of a chunk that was
\* released before, no step releases a buffer the chunk does not have, and a
\* released reservation or buffer is never used by an I/O started later.
ResourcesReleasedOnce ==
    [][\A c \in Chunks :
         /\ (cev'.op = "chunk_free" /\ cev'.chunk = c)
               => ~(chunk[c].store_freed /\ chunk[c].diff_store # 0)
         /\ (cev'.op \in {"load_done", "store_done", "image_write"}
               /\ cev'.chunk = c /\ "FAILED" \in chunk'[c].state
               /\ "FAILED" \notin chunk[c].state)
               => ~chunk[c].store_freed
         /\ [chunk |-> c, write |-> TRUE] \in io' \ io
               => ~chunk'[c].store_freed /\ chunk'[c].diff_buffer # NoBuffer]_vars

(***************************************************************************)
(* Part X.  The image list and the minors of module/snapimage.c            *)
(* (_snapimage_create, snapimage_destroy, snapimage_create_for).  S is     *)
(* the bitmap, the list and the result of the last call.  The failures of  *)
(* _snapimage_create taken in are the ones before the minor is looked for  *)
(* and the bitmap being full.                                              *)
(***************************************************************************)
\* _snapimage_create(): an early failure returns its error.  Otherwise
\* bitmap_find_free_region() marks and returns the lowest free minor; with
\* none free the code goes to fail with res still 0, where
\* _snapimage_destroy() clears MINOR(image->image_dev), the minor 0 of the
\* zeroed image.  With a minor the image is linked at the tail.
SnapimageCreate(S, dev, early_ok) ==
    LET free == (0..(SnapimageMaxDevices - 1)) \ S.minors
        minor == CHOOSE m \in free : \A n \in free : m <= n
    IN  IF ~early_ok THEN [S EXCEPT !.res = "ENOMEM"]
        ELSE IF free = {}
        THEN [S EXCEPT !.minors = @ \ {0}, !.res = "OK"]
        ELSE [minors |-> S.minors \cup {minor},
              list |-> Append(S.list, [orig_dev_id |-> dev, image_dev |-> minor]),
              res |-> "OK"]

\* snapimage_destroy(): the first image of the device is unlinked and
\* _snapimage_destroy() clears its minor; no image of the device: nothing.
SnapimageDestroy(S, dev) ==
    LET hits == {i \in 1..Len(S.list) : S.list[i].orig_dev_id = dev}
        i == CHOOSE h \in hits : \A g \in hits : h <= g
    IN  IF hits = {} THEN S
        ELSE [S EXCEPT !.minors = @ \ {S.list[i].image_dev},
                       !.list = SubSeq(@, 1, i - 1) \o SubSeq(@, i + 1, Len(@))]

\* snapimage_create_for(p_dev, count): the loop ends at the first
\* _snapimage_create() that returns an error; then, if inx > 0,
\* _snapimage_destroy_for(p_dev, inx - 1) destroys the images of
\* p_dev[0 .. inx - 2].  k > 0: the k-th _snapimage_create() fails early.
SnapimageCreateFor(devs, k) ==
    /\ k \in 0..Len(devs)
    /\ LET n == Len(devs)
           S0 == [minors |-> snapimage_minors, list |-> snap_images, res |-> "OK"]
           after[i \in 0..n] ==
               IF i = 0 THEN S0
               ELSE IF after[i - 1].res # "OK" THEN after[i - 1]
               ELSE SnapimageCreate(after[i - 1], devs[i], i # k)
           S1 == after[n]
           inx == IF S1.res = "OK" THEN n
                  ELSE (CHOOSE i \in 1..n : after[i].res # "OK"
                                            /\ after[i - 1].res = "OK") - 1
           undo[j \in 0..n] ==
               IF j = 0 THEN S1 ELSE SnapimageDestroy(undo[j - 1], devs[j])
           S2 == IF S1.res # "OK" /\ inx > 0 THEN undo[inx - 1] ELSE S1
       IN  /\ snapimage_minors' = S2.minors
           /\ snap_images' = S2.list
           /\ img_ev' = [op |-> "create_for", devs |-> devs, res |-> S2.res,
                         made |-> {S1.list[i] :
                                     i \in (Len(snap_images) + 1)..Len(S1.list)}]
    /\ UNCHANGED notImg

\* snapimage_destroy(orig_dev_id) called from outside.
SnapimageDestroyCall(dev) ==
    /\ LET S == SnapimageDestroy([minors |-> snapimage_minors,
                                  list |-> snap_images, res |-> "OK"], dev)
       IN  /\ snapimage_minors' = S.minors
           /\ snap_images' = S.list
    /\ img_ev' = [op |-> "destroy", dev |-> dev]
    /\ UNCHANGED notImg

NextImage ==
    \/ \E devs \in DevLists, k \in 0..NDev :
          SnapimageCreateFor(devs, k) /\ Len(snap_images') <= MaxImages
    \/ \E dev \in Devs : SnapimageDestroyCall(dev)

SpecImage == InitSnapshot /\ [][NextImage]_vars

\* C38: when snapimage_create_for returns an error, no image it created is
\* left in the list of images.
CreateForAllOrNothing ==
    [][(img_ev'.op = "create_for" /\ img_ev'.res # "OK")
          => \A r \in img_ev'.made :
                \A i \in 1..Len(snap_images') : snap_images'[i] # r]_vars

\* C39: no two images of the list have the same minor, the minors marked
\* used in the bitmap are the minors of the images of the list, and a
\* creation that returns no error has added an image for every device it
\* was called for.
MinorsMatchImages ==
    /\ [](/\ \A i, j \in 1..Len(snap_images) :
                snap_images[i].image_dev = snap_images[j].image_dev => i = j
          /\ snapimage_minors =
                {snap_images[i].image_dev : i \in 1..Len(snap_images)})
    /\ [][(img_ev'.op = "create_for" /\ img_ev'.res = "OK")
             => Len(snap_images') = Len(snap_images) + Len(img_ev'.devs)]_vars

(***************************************************************************)
(* Part XI.  cbt_map_calculate_block_size (module/cbt_map.c), in           *)
(* arithmetic of WordBits bits.                                            *)
(***************************************************************************)
\* cbt_map_calculate_block_size(): shift starts at the minimum and is
\* shifted left by one, shift = shift << 1, while count_by_shift() is above
\* the maximum.  count_by_shift(): blk_size = 1ull << (shift - SECTOR_SHIFT),
\* round_up(capacity, blk_size) / blk_size, the round_up wrapping at the
\* width.  ub: a shift by the width or more was evaluated, which is
\* undefined; shift and count are then the last ones computed before it.
CbtMapCalculateBlockSize(capacity, min_shift, max_count) ==
    LET width == 2 ^ WordBits
        defined(shift) == shift - SectorShift < WordBits
        count_by_shift(shift) ==
            LET blk_size == 2 ^ (shift - SectorShift)
                round_up == IF capacity = 0 THEN 0
                            ELSE ((((capacity - 1) \div blk_size) + 1) * blk_size)
                                    % width
            IN  round_up \div blk_size
        loop[i \in 0..WordBits] ==
            IF i = 0
            THEN [shift |-> min_shift, count |-> count_by_shift(min_shift),
                  ub |-> FALSE, done |-> FALSE]
            ELSE LET p == loop[i - 1]
                     shift == (p.shift * 2) % width
                 IN  IF p.ub \/ p.done THEN p
                     ELSE IF p.count <= max_count THEN [p EXCEPT !.done = TRUE]
                     ELSE IF ~defined(shift) THEN [p EXCEPT !.ub = TRUE]
                     ELSE [p EXCEPT !.shift = shift,
                                    !.count = count_by_shift(shift)]
    IN  loop[WordBits]

\* A device of any capacity and any parameters with a minimum shift of at
\* least SECTOR_SHIFT and a maximum count of at least 1.
InitCalc ==
    /\ SnapInit /\ CowInit /\ ~area.in_memory /\ area.capacity = StoreCap
    /\ CbtAtRest /\ TrkInit /\ EvqInit /\ ImgInit
    /\ calc \in [pc : {"called"}, device_capacity : 0..(2 ^ WordBits - 1),
                 min_shift : SectorShift..MaxMinShift,
                 max_count : 1..MaxMaxCount]

\* The call made by cbt_map_create().  After an undefined shift the build
\* decides what happens: the loop may go on for ever (hang) or end with any
\* count.
CalculateBlockSize ==
    /\ calc.pc = "called"
    /\ LET r == CbtMapCalculateBlockSize(calc.device_capacity, calc.min_shift,
                                         calc.max_count)
           in == [device_capacity |-> calc.device_capacity,
                  min_shift |-> calc.min_shift, max_count |-> calc.max_count]
       IN  IF ~r.ub
           THEN calc' = [pc |-> "done", in |-> in, ub |-> FALSE, hang |-> FALSE,
                         blk_size_shift |-> r.shift, blk_count |-> r.count]
           ELSE \E hang \in BOOLEAN, count \in 0..(2 ^ WordBits - 1) :
                   calc' = [pc |-> "done", in |-> in, ub |-> TRUE, hang |-> hang,
                            blk_size_shift |-> r.shift, blk_count |-> count]
    /\ UNCHANGED notCalc

SpecCalc == InitCalc /\ [][CalculateBlockSize]_vars

\* C40: the calculation ends without an overflow; blk_count is the device
\* capacity divided by the block size in sectors, rounded up, and is at most
\* tracking_block_maximum_count; and the shift is the first of min, min + 1,
\* min + 2, ... whose block count is within the maximum.
BlockSizeIsFirstFit ==
    calc.pc = "done" =>
        LET Ceil(shift) ==
                (calc.in.device_capacity + 2 ^ (shift - SectorShift) - 1)
                    \div 2 ^ (shift - SectorShift)
        IN  /\ ~calc.ub /\ ~calc.hang
            /\ calc.blk_count = Ceil(calc.blk_size_shift)
            /\ calc.blk_count <= calc.in.max_count
            /\ calc.blk_size_shift >= calc.in.min_shift
            /\ \A sh \in calc.in.min_shift..(calc.blk_size_shift - 1) :
                  Ceil(sh) > calc.in.max_count

=============================================================================
